---- MODULE Spec2Model ----
(***************************************************************************)
(* Rolling-window kernels over nullable columns                            *)
(* (polars-arrow/src/kernels/rolling), the NaN-aware comparators and       *)
(* sort_buf, and the groupby tuple engine                                  *)
(* (polars-core/src/frame/groupby/into_groups.rs).                         *)
(*                                                                         *)
(* Row indices are 0-based as in the source; TLA+ sequences are 1-based,   *)
(* so row i of a buffer s is s[i + 1].                                     *)
(***************************************************************************)
EXTENDS Integers, Sequences, FiniteSets, TLC

\* ------------------------------------------------------------------ bounds
\* Longest values buffer of an enumerated input array.
MaxLen == 3
\* Largest window_size argument.
MaxWin == 4
\* Largest min_periods argument.
MaxMinP == 4
\* The values a buffer slot holds (null slots hold a value too).
Vals == {1, 2}
\* Bit offsets of the validity bitmap inside its byte buffer.
BitOffsets == {0, 1}

\* usize::MAX.  Only its being at least every row index matters to
\* saturating_sub; it stands at the largest integer the checker represents.
USIZE_MAX == 2147483647

VARIABLES
    arr,        \* the input PrimitiveArray: values, validity bits, bit offset
    call,       \* the arguments of the rolling kernel that was called
    status,     \* "idle" | "running" | "done" | "panicked" | "crashed"
    out,        \* the returned array: values and validity
    windows,    \* the [start, end) computed for each position so far, in order
    agg,        \* rolling_apply_agg_window: loop position and window object
    col,        \* the key column of group_tuples: chunks and sortedness flag
    gcall,      \* the arguments of group_tuples and the pool it ran on
    gout,       \* what group_tuples returned: the path taken and the groups
    pool,       \* the parallel region of group_tuples: tasks, results, hasher
    buf,        \* the buffer of the comparators and of sort_buf
    cmp,        \* the last comparison: function, operands, Ordering
    lhs,        \* the left operand of an arithmetic operation: rows and flag
    acall,      \* the operation called: operator, right operand, build
    aout        \* what the operation returned: rows and sortedness flag

rollingVars == <<arr, call, status, out, windows, agg>>

groupVars == <<col, gcall, gout, pool>>

ordVars == <<buf, cmp>>

arithVars == <<lhs, acall, aout>>

vars ==
    <<arr, call, status, out, windows, agg, col, gcall, gout, pool, buf, cmp,
      lhs, acall, aout>>

\* ----------------------------------------------------------------- helpers
Min(a, b) == IF a < b THEN a ELSE b

Max(a, b) == IF a > b THEN a ELSE b

Abs(a) == IF a < 0 THEN -a ELSE a

Sign(a) == IF a > 0 THEN 1 ELSE IF a < 0 THEN -1 ELSE 0

RECURSIVE GCD(_, _)
GCD(a, b) == IF b = 0 THEN a ELSE GCD(b, a % b)

\* All sequences over S of length 0..n.
SeqsUpTo(S, n) == UNION {[1..k -> S] : k \in 0..n}

\* --------------------------------------------------------- float arithmetic
\* A float is the exact fraction n/d in lowest terms with d > 0, or one of
\* the non-finite values: d = 0 with n = 1 (+inf), n = -1 (-inf), n = 0 (NaN).
\* The buffers hold small integers, so every finite result is exact.
Flt(n, d) ==
    IF d = 0 THEN [n |-> Sign(n), d |-> 0]
    ELSE LET g == GCD(Abs(n), Abs(d))
             s == IF d < 0 THEN -1 ELSE 1
         IN [n |-> (s * n) \div g, d |-> (s * d) \div g]

FromInt(k) == [n |-> k, d |-> 1]

FltNaN == [n |-> 0, d |-> 0]

IsFinite(x) == x.d # 0

IsNanFlt(x) == x.d = 0 /\ x.n = 0

\* x + y; inf - inf and anything with NaN is NaN.
FAdd(x, y) ==
    IF IsFinite(x) /\ IsFinite(y) THEN Flt(x.n * y.d + y.n * x.d, x.d * y.d)
    ELSE IF IsNanFlt(x) \/ IsNanFlt(y) THEN FltNaN
    ELSE IF IsFinite(x) THEN y
    ELSE IF IsFinite(y) THEN x
    ELSE IF x.n = y.n THEN x ELSE FltNaN

FNeg(x) == [n |-> -x.n, d |-> x.d]

FSub(x, y) == FAdd(x, FNeg(y))

FMul(x, y) ==
    IF IsFinite(x) /\ IsFinite(y) THEN Flt(x.n * y.n, x.d * y.d)
    ELSE IF IsNanFlt(x) \/ IsNanFlt(y) THEN FltNaN
    ELSE IF x.n = 0 \/ y.n = 0 THEN FltNaN
    ELSE [n |-> Sign(x.n) * Sign(y.n), d |-> 0]

\* x / y; finite / 0 is +-inf, 0 / 0 is NaN.
FDiv(x, y) ==
    IF IsNanFlt(x) \/ IsNanFlt(y) THEN FltNaN
    ELSE IF IsFinite(x) /\ IsFinite(y) THEN Flt(x.n * y.d, x.d * y.n)
    ELSE IF IsFinite(x) THEN FromInt(0)
    ELSE IF IsFinite(y) THEN [n |-> x.n * (IF y.n < 0 THEN -1 ELSE 1), d |-> 0]
    ELSE FltNaN

\* --------------------------------------------------------- Option<T>
None == [some |-> FALSE, val |-> FromInt(0)]

Some(v) == [some |-> TRUE, val |-> v]

\* ------------------------------------------------------ window offset policy
SaturatingSub(a, b) == IF a >= b THEN a - b ELSE 0

\* window_size - 1 on usize as a build without overflow checks computes it.
WindowSizeMinusOne(window_size) ==
    IF window_size >= 1 THEN window_size - 1 ELSE USIZE_MAX

\* window_size - 1 overflows: a build with overflow checks panics here.
DetOffsetsOverflows(window_size) == window_size < 1

\* Mutant: the window reaches one row too far back.
det_offsets_one_more(i, window_size, len) ==
    <<SaturatingSub(i, window_size), i + 1>>

\* Mutant: the start advances two rows per position.
det_offsets_start_by_two(i, window_size, len) ==
    <<Min(SaturatingSub(2 * i, WindowSizeMinusOne(window_size)), i + 1), i + 1>>

det_offsets(i, window_size, len) ==
    <<SaturatingSub(i, WindowSizeMinusOne(window_size)), i + 1>>

\* Mutant: the right half is rounded up, ceil((window_size + 1) / 2).
det_offsets_center_ceil(i, window_size, len) ==
    LET right_window == (window_size + 2) \div 2
    IN <<SaturatingSub(i, window_size - right_window),
         Min(len, i + right_window)>>

det_offsets_center(i, window_size, len) ==
    LET right_window == (window_size + 1) \div 2
    IN <<SaturatingSub(i, window_size - right_window),
         Min(len, i + right_window)>>

\* det_offsets_fn: the policy a kernel passes down for its center argument.
det_offsets_fn(center, i, window_size, len) ==
    IF center THEN det_offsets_center(i, window_size, len)
    ELSE det_offsets(i, window_size, len)

\* ------------------------------------------------------------ create_validity
\* head: for i in 0..len, null while the window is shorter than min_periods.
RECURSIVE HeadScan(_, _, _, _, _, _)
HeadScan(v, i, min_periods, len, window_size, center) ==
    IF i >= len THEN v
    ELSE LET o == det_offsets_fn(center, i, window_size, len)
         IN IF (o[2] - o[1]) < min_periods
            THEN HeadScan([v EXCEPT ![i + 1] = FALSE], i + 1, min_periods, len,
                          window_size, center)
            ELSE v

\* tail: for i in (0..len).rev(), the same from the other end.
RECURSIVE TailScan(_, _, _, _, _, _)
TailScan(v, i, min_periods, len, window_size, center) ==
    IF i < 0 THEN v
    ELSE LET o == det_offsets_fn(center, i, window_size, len)
         IN IF (o[2] - o[1]) < min_periods
            THEN TailScan([v EXCEPT ![i + 1] = FALSE], i - 1, min_periods, len,
                          window_size, center)
            ELSE v

AllValid(len) == [k \in 1..len |-> TRUE]

\* Mutant: the tail scan is left out.
create_validity_head_only(min_periods, len, window_size, center) ==
    IF min_periods > 1
    THEN [some |-> TRUE,
          val |-> HeadScan(AllValid(len), 0, min_periods, len, window_size,
                           center)]
    ELSE [some |-> FALSE, val |-> <<>>]

\* Option<MutableBitmap>: None when min_periods <= 1.
create_validity(min_periods, len, window_size, center) ==
    IF min_periods > 1
    THEN [some |-> TRUE,
          val |-> TailScan(HeadScan(AllValid(len), 0, min_periods, len,
                                    window_size, center),
                           len - 1, min_periods, len, window_size, center)]
    ELSE [some |-> FALSE, val |-> <<>>]

\* The bitmap both rolling loops start from.
InitialValidity(min_periods, len, window_size, center) ==
    LET v == create_validity(min_periods, len, window_size, center)
    IN IF v.some THEN v.val ELSE AllValid(len)

\* ------------------------------------------------------------- the aggregators
\* get_bit_unchecked(validity_bytes, k): bit k of the byte buffer.
GetBit(bits, k) == bits[k + 1]

\* count_zeros(validity_bytes, offset, len): unset bits in [offset, offset+len).
count_zeros(bits, offset, len) ==
    Cardinality({k \in offset..(offset + len - 1) : ~GetBit(bits, k)})

\* Sum of values[start..end) over the slots whose bit is set; `offset` is the
\* bitmap position of values[start].
RECURSIVE SumValid(_, _, _, _, _)
SumValid(values, bits, offset, start, end) ==
    IF start >= end THEN 0
    ELSE (IF GetBit(bits, offset) THEN values[start + 1] ELSE 0)
         + SumValid(values, bits, offset + 1, start + 1, end)

RECURSIVE SumAll(_, _, _)
SumAll(values, start, end) ==
    IF start >= end THEN 0
    ELSE values[start + 1] + SumAll(values, start + 1, end)

\* no_nulls::compute_sum / compute_mean / compute_var over values[start..end).
no_nulls_compute_sum(values, start, end) == FromInt(SumAll(values, start, end))

no_nulls_compute_mean(values, start, end) ==
    FDiv(FromInt(SumAll(values, start, end)), FromInt(end - start))

RECURSIVE SumSqDev(_, _, _, _, _, _)
SumSqDev(values, bits, offset, start, end, mean) ==
    IF start >= end THEN FromInt(0)
    ELSE LET v == FSub(FromInt(values[start + 1]), mean)
             rest == SumSqDev(values, bits, offset + 1, start + 1, end, mean)
         IN IF GetBit(bits, offset) THEN FAdd(FMul(v, v), rest) ELSE rest

no_nulls_compute_var(values, start, end) ==
    LET mean == no_nulls_compute_mean(values, start, end)
        ones == [k \in 1..(end - start) |-> TRUE]
    IN FDiv(SumSqDev(values, ones, 0, start, end, mean),
            FromInt((end - start) - 1))

\* The aggregators get the slice values[start..end), the validity bytes and
\* the bitmap position `offset` of the slice's first value.
\* Mutant: min_periods is tested against the slice length, nulls included.
compute_sum_counts_nulls(values, start, end, bits, offset, min_periods) ==
    LET null_count == count_zeros(bits, offset, end - start)
    IN IF null_count = 0 THEN Some(no_nulls_compute_sum(values, start, end))
       ELSE IF (end - start) < min_periods THEN None
       ELSE Some(FromInt(SumValid(values, bits, offset, start, end)))

\* Mutant: the values of null slots are added too.
compute_sum_adds_nulls(values, start, end, bits, offset, min_periods) ==
    LET null_count == count_zeros(bits, offset, end - start)
    IN IF null_count = 0 THEN Some(no_nulls_compute_sum(values, start, end))
       ELSE IF ((end - start) - null_count) < min_periods THEN None
       ELSE Some(FromInt(SumAll(values, start, end)))

compute_sum(values, start, end, bits, offset, min_periods) ==
    LET null_count == count_zeros(bits, offset, end - start)
    IN IF null_count = 0 THEN Some(no_nulls_compute_sum(values, start, end))
       ELSE IF ((end - start) - null_count) < min_periods THEN None
       ELSE Some(FromInt(SumValid(values, bits, offset, start, end)))

\* Mutant: the sum is divided by the length of the window, nulls included.
compute_mean_by_window_len(values, start, end, bits, offset, min_periods) ==
    LET null_count == count_zeros(bits, offset, end - start)
    IN IF null_count = 0 THEN Some(no_nulls_compute_mean(values, start, end))
       ELSE IF ((end - start) - null_count) < min_periods THEN None
       ELSE Some(FDiv(FromInt(SumValid(values, bits, offset, start, end)),
                      FromInt(end - start)))

compute_mean(values, start, end, bits, offset, min_periods) ==
    LET null_count == count_zeros(bits, offset, end - start)
    IN IF null_count = 0 THEN Some(no_nulls_compute_mean(values, start, end))
       ELSE IF ((end - start) - null_count) < min_periods THEN None
       ELSE Some(FDiv(FromInt(SumValid(values, bits, offset, start, end)),
                      FromInt((end - start) - null_count)))

\* Mutant: the sum of squares is divided by count, not count - 1.
compute_var_by_count(values, start, end, bits, offset, min_periods) ==
    LET null_count == count_zeros(bits, offset, end - start)
    IN IF null_count = 0 THEN Some(no_nulls_compute_var(values, start, end))
       ELSE IF ((end - start) - null_count) < min_periods THEN None
       ELSE LET m == compute_mean(values, start, end, bits, offset, min_periods)
            IN IF ~m.some THEN None
               ELSE Some(FDiv(SumSqDev(values, bits, offset, start, end, m.val),
                              FromInt((end - start) - null_count)))

compute_var(values, start, end, bits, offset, min_periods) ==
    LET null_count == count_zeros(bits, offset, end - start)
    IN IF null_count = 0 THEN Some(no_nulls_compute_var(values, start, end))
       ELSE IF ((end - start) - null_count) < min_periods THEN None
       ELSE LET m == compute_mean(values, start, end, bits, offset, min_periods)
            IN IF ~m.some THEN None
               ELSE Some(FDiv(SumSqDev(values, bits, offset, start, end, m.val),
                              FromInt(((end - start) - null_count) - 1)))

aggregator(kind, values, start, end, bits, offset, min_periods) ==
    CASE kind = "sum" -> compute_sum(values, start, end, bits, offset, min_periods)
      [] kind = "mean" -> compute_mean(values, start, end, bits, offset, min_periods)
      [] kind = "var" -> compute_var(values, start, end, bits, offset, min_periods)

\* --------------------------------------------------------------- rolling_apply
\* One position of the map over 0..len: the value and whether it is null.
RollingApplyAt(kind, a, idx, window_size, min_periods, center) ==
    LET o == det_offsets_fn(center, idx, window_size, Len(a.values))
    IN aggregator(kind, a.values, o[1], o[2], a.bits, a.offset + o[1],
                  min_periods)

rolling_apply(kind, a, window_size, min_periods, center) ==
    LET len == Len(a.values)
        validity == InitialValidity(min_periods, len, window_size, center)
        res == [k \in 1..len |->
                   RollingApplyAt(kind, a, k - 1, window_size, min_periods,
                                  center)]
    IN [values |-> [k \in 1..len |->
                       IF res[k].some THEN res[k].val ELSE FromInt(0)],
        validity |-> [k \in 1..len |-> validity[k] /\ res[k].some]]

\* ------------------------------------------------------ NaN-aware comparators
\* A buffer element of the comparators and of sort_buf: a number, or NaN.
Num(v) == [nan |-> FALSE, v |-> v]

NaN == [nan |-> TRUE, v |-> 0]

is_nan(a) == a.nan

\* a.partial_cmp(b) of two numbers.
partial_cmp(a, b) ==
    IF a.v < b.v THEN "Less" ELSE IF a.v > b.v THEN "Greater" ELSE "Equal"

\* Mutant: NaN is ordered above every number.
compare_fn_nan_min_nan_greater(is_float, a, b) ==
    IF is_float
    THEN CASE ~is_nan(a) /\ ~is_nan(b) -> partial_cmp(a, b)
           [] is_nan(a) /\ is_nan(b) -> "Equal"
           [] is_nan(a) /\ ~is_nan(b) -> "Greater"
           [] ~is_nan(a) /\ is_nan(b) -> "Less"
    ELSE partial_cmp(a, b)

compare_fn_nan_min(is_float, a, b) ==
    IF is_float
    THEN CASE ~is_nan(a) /\ ~is_nan(b) -> partial_cmp(a, b)
           [] is_nan(a) /\ is_nan(b) -> "Equal"
           [] is_nan(a) /\ ~is_nan(b) -> "Less"
           [] ~is_nan(a) /\ is_nan(b) -> "Greater"
    ELSE partial_cmp(a, b)

compare_fn_nan_max(is_float, a, b) ==
    IF is_float
    THEN CASE ~is_nan(a) /\ ~is_nan(b) -> partial_cmp(a, b)
           [] is_nan(a) /\ is_nan(b) -> "Equal"
           [] is_nan(a) /\ ~is_nan(b) -> "Greater"
           [] ~is_nan(a) /\ is_nan(b) -> "Less"
    ELSE partial_cmp(a, b)

\* ---------------------------------------------- the stateful max window
\* Bitmap::get_bit(idx): the bitmap applies its own offset.
BitmapGet(a, idx) == a.bits[a.offset + idx + 1]

\* The rows of [start, end) whose validity bit is set.
ValidRows(a, start, end) == {k \in start..(end - 1) : BitmapGet(a, k)}

\* The largest valid value of the window under compare_fn_nan_max.
WindowMax(a, rows) ==
    CHOOSE m \in {a.values[k + 1] : k \in rows} :
        \A k \in rows :
            compare_fn_nan_max(TRUE, Num(a.values[k + 1]), Num(m)) # "Greater"

\* RollingAggWindow::new: the window object remembers its bounds.
MaxWindow_new(start, end, min_periods) ==
    [last_start |-> start, last_end |-> end, min_periods |-> min_periods]

\* RollingAggWindow::update: the aggregate over the valid members of
\* [start, end), or None when fewer than min_periods of them are valid (or none).
MaxWindow_update(a, w, start, end) ==
    LET rows == ValidRows(a, start, end)
    IN IF Cardinality(rows) < w.min_periods \/ rows = {} THEN None
       ELSE Some(FromInt(WindowMax(a, rows)))

\* ------------------------------------------------------------------- state
NoCall ==
    [kind |-> "none", window_size |-> 0, min_periods |-> 0, center |-> FALSE,
     weights |-> FALSE]

NoOut == [values |-> <<>>, validity |-> <<>>]

NoAgg ==
    [idx |-> 0, window |-> MaxWindow_new(0, 0, 0), news |-> <<>>,
     values |-> <<>>, validity |-> <<>>]

\* Every array with a values buffer of up to MaxLen slots, a validity bitmap
\* and a bit offset; the slots before the offset belong to another array.
Arrays ==
    UNION {UNION {{[values |-> v, bits |-> b, offset |-> o] :
                      b \in [1..(Len(v) + o) -> BOOLEAN]} :
                  o \in BitOffsets} :
           v \in SeqsUpTo(Vals, MaxLen)}

\* The arrays of test_rolling_sum_nulls and test_rolling_max_no_nulls.
TestSumNullsArr ==
    [values |-> <<1, 2, 3, 4>>, bits |-> <<TRUE, FALSE, TRUE, TRUE>>,
     offset |-> 0]

TestMaxNoNullsArr ==
    [values |-> <<1, 2, 3, 4>>, bits |-> <<TRUE, TRUE, TRUE, TRUE>>,
     offset |-> 0]

\* No rolling kernel has been called.
RollingIdle ==
    /\ call = NoCall
    /\ status = "idle"
    /\ out = NoOut
    /\ windows = <<>>
    /\ agg = NoAgg

\* No key column, no group_tuples call.
NoCol == [chunks |-> <<<<>>>>, flag |-> "Not", float |-> FALSE]

NoGCall ==
    [dtype |-> "none", multithreaded |-> FALSE, sorted |-> FALSE,
     n_threads |-> 1, inner_numeric |-> TRUE, groupby_list |-> TRUE]

NoGOut == [status |-> "idle", path |-> "none", variant |-> "none",
           groups |-> <<>>]

\* No parallel region: no tasks, no results, no hasher.
NoPool ==
    [region |-> "none", tasks |-> <<>>, slots |-> <<>>, order |-> <<>>,
     hb |-> <<0, 0, 0>>, null_h |-> 0]

GroupIdle == col = NoCol /\ gcall = NoGCall /\ gout = NoGOut /\ pool = NoPool

\* No buffer, no comparison.
NoBuf == [is_float |-> FALSE, input |-> <<>>, data |-> <<>>, sorted |-> FALSE]

NoCmp == [fn |-> "none", a |-> Num(0), b |-> Num(0), res |-> "Equal"]

OrdIdle == buf = NoBuf /\ cmp = NoCmp

\* No operand, no arithmetic operation.
NoLhs == [rows |-> <<>>, flag |-> "Not"]

NoACall ==
    [op |-> "none", kind |-> "none", scalar |-> 0, rhs |-> NoLhs,
     overflow_checks |-> FALSE, assign |-> FALSE]

NoAOut == [status |-> "idle", rows |-> <<>>, flag |-> "Not"]

ArithIdle == lhs = NoLhs /\ acall = NoACall /\ aout = NoAOut

InitRolling ==
    /\ arr \in Arrays \cup {TestSumNullsArr, TestMaxNoNullsArr}
    /\ RollingIdle
    /\ GroupIdle
    /\ OrdIdle
    /\ ArithIdle

\* Mutant: the weights are ignored.
weights_ignored(weights) == FALSE

\* weights.is_some(), on which rolling_sum, rolling_mean, rolling_var and
\* rolling_max panic.
weights_is_some(weights) == weights

\* ----------------------------------------------------------------- kernels
\* rolling_sum / rolling_mean / rolling_var: the weights check, then
\* rolling_apply with the policy of `center`.  overflow_checks is the build's
\* setting: with it, window_size - 1 panics on overflow when det_offsets runs,
\* which it does once per row.
RollingKernel(kind) ==
    /\ status = "idle"
    /\ \E window_size \in 0..MaxWin, min_periods \in 0..MaxMinP,
          center \in BOOLEAN, weights \in BOOLEAN, overflow_checks \in BOOLEAN :
        /\ call' = [kind |-> kind, window_size |-> window_size,
                    min_periods |-> min_periods, center |-> center,
                    weights |-> weights]
        /\ IF weights_is_some(weights)
              \/ (overflow_checks /\ ~center /\ DetOffsetsOverflows(window_size)
                  /\ Len(arr.values) > 0)
           THEN status' = "panicked" /\ out' = NoOut /\ windows' = <<>>
           ELSE /\ status' = "done"
                /\ out' = rolling_apply(kind, arr, window_size, min_periods,
                                        center)
                /\ windows' = [k \in 1..Len(arr.values) |->
                                  det_offsets_fn(center, k - 1, window_size,
                                                 Len(arr.values))]
    /\ UNCHANGED <<arr, agg, groupVars, ordVars, arithVars>>

rolling_sum == RollingKernel("sum")

rolling_mean == RollingKernel("mean")

rolling_var == RollingKernel("var")

\* Mutant: the map starts at position 1.
map_range_skips_first(len) == [k \in 1..(len - 1) |-> k]

\* (0..len).map: the positions the loop of rolling_apply_agg_window visits,
\* in order.
map_range(len) == [k \in 1..len |-> k - 1]

\* Agg::new reads values[start..end) unchecked: a range that ends beyond the
\* buffer is an out-of-bounds read.
ReadsOutOfBounds(o, len) == o[1] > o[2] \/ o[2] > len

\* rolling_max: the weights check, then rolling_apply_agg_window up to the
\* construction of the window object from the window of position 0.  An
\* out-of-bounds read in Agg::new either crashes or goes unnoticed.
rolling_max ==
    /\ status = "idle"
    /\ \E window_size \in 0..MaxWin, min_periods \in 0..MaxMinP,
          center \in BOOLEAN, weights \in BOOLEAN, overflow_checks \in BOOLEAN,
          crashes \in BOOLEAN :
        /\ call' = [kind |-> "max", window_size |-> window_size,
                    min_periods |-> min_periods, center |-> center,
                    weights |-> weights]
        /\ IF weights_is_some(weights)
              \/ (overflow_checks /\ ~center /\ DetOffsetsOverflows(window_size))
           THEN ~crashes /\ status' = "panicked" /\ agg' = NoAgg
           ELSE LET len == Len(arr.values)
                    o == det_offsets_fn(center, 0, window_size, len)
                IN /\ crashes => ReadsOutOfBounds(o, len)
                   /\ status' = IF crashes THEN "crashed" ELSE "running"
                   /\ agg' = [idx |-> 0,
                              window |-> MaxWindow_new(o[1], o[2], min_periods),
                              news |-> <<o>>,
                              values |-> <<>>,
                              validity |-> InitialValidity(min_periods, len,
                                               window_size, center)]
    /\ UNCHANGED <<arr, out, windows, groupVars, ordVars, arithVars>>

\* One step of the map over 0..len in rolling_apply_agg_window; agg.idx
\* counts the steps taken.
AggUpdate ==
    /\ status = "running"
    /\ agg.idx < Len(map_range(Len(arr.values)))
    /\ LET idx == map_range(Len(arr.values))[agg.idx + 1]
           o == det_offsets_fn(call.center, idx, call.window_size,
                               Len(arr.values))
           r == MaxWindow_update(arr, agg.window, o[1], o[2])
       IN /\ agg' = [agg EXCEPT
                       !.idx = @ + 1,
                       !.window = [@ EXCEPT !.last_start = o[1],
                                            !.last_end = o[2]],
                       !.values = Append(@, IF r.some THEN r.val
                                            ELSE FromInt(0)),
                       !.validity = IF r.some THEN @
                                    ELSE [@ EXCEPT ![idx + 1] = FALSE]]
          /\ windows' = Append(windows, o)
    /\ UNCHANGED <<arr, call, status, out, groupVars, ordVars, arithVars>>

\* collect_trusted and PrimitiveArray::from_data once the map is exhausted.
AggCollect ==
    /\ status = "running"
    /\ agg.idx = Len(map_range(Len(arr.values)))
    /\ out' = [values |-> agg.values, validity |-> agg.validity]
    /\ status' = "done"
    /\ UNCHANGED <<arr, call, windows, agg, groupVars, ordVars, arithVars>>

NextRolling ==
    \/ rolling_sum
    \/ rolling_mean
    \/ rolling_var
    \/ rolling_max
    \/ AggUpdate
    \/ AggCollect

SpecRolling == InitRolling /\ [][NextRolling]_vars

\* ======================================================= comparators, sort_buf
\* Longest buffer handed to sort_buf.
MaxBuf == 3

\* The numbers a buffer holds.
OrdVals == {-1, 0, 1}

\* Float buffers hold numbers and NaN, integer buffers numbers only.
Elems(is_float) ==
    {Num(v) : v \in OrdVals} \cup (IF is_float THEN {NaN} ELSE {})

Buffers ==
    UNION {{[is_float |-> f, input |-> d, data |-> d, sorted |-> FALSE] :
               d \in SeqsUpTo(Elems(f), MaxBuf)} :
           f \in BOOLEAN}

InitOrd ==
    /\ buf \in Buffers
    /\ cmp = NoCmp
    /\ arr = [values |-> <<>>, bits |-> <<>>, offset |-> 0]
    /\ RollingIdle
    /\ GroupIdle
    /\ ArithIdle

\* compare_fn_nan_min applied to two elements of the buffer.
CompareNanMin ==
    /\ \E i, j \in 1..Len(buf.data) :
        cmp' = [fn |-> "compare_fn_nan_min", a |-> buf.data[i],
                b |-> buf.data[j],
                res |-> compare_fn_nan_min(buf.is_float, buf.data[i],
                                           buf.data[j])]
    /\ UNCHANGED <<buf, rollingVars, groupVars, arithVars>>

\* compare_fn_nan_max applied to two elements of the buffer.
CompareNanMax ==
    /\ \E i, j \in 1..Len(buf.data) :
        cmp' = [fn |-> "compare_fn_nan_max", a |-> buf.data[i],
                b |-> buf.data[j],
                res |-> compare_fn_nan_max(buf.is_float, buf.data[i],
                                           buf.data[j])]
    /\ UNCHANGED <<buf, rollingVars, groupVars, arithVars>>

\* Mutant: the closure orders NaN before every number.
sort_buf_cmp_nan_first(is_float, a, b) ==
    IF is_float
    THEN CASE ~is_nan(a) /\ ~is_nan(b) -> partial_cmp(a, b)
           [] is_nan(a) /\ is_nan(b) -> "Equal"
           [] is_nan(a) /\ ~is_nan(b) -> "Less"
           [] ~is_nan(a) /\ is_nan(b) -> "Greater"
    ELSE partial_cmp(a, b)

\* The closure sort_buf hands to sort_by.
sort_buf_cmp(is_float, a, b) ==
    IF is_float
    THEN CASE ~is_nan(a) /\ ~is_nan(b) -> partial_cmp(a, b)
           [] is_nan(a) /\ is_nan(b) -> "Equal"
           [] is_nan(a) /\ ~is_nan(b) -> "Greater"
           [] ~is_nan(a) /\ is_nan(b) -> "Less"
    ELSE partial_cmp(a, b)

\* slice::sort_by is a stable sort: x goes in behind every element it is not
\* Less than.
RECURSIVE InsertBy(_, _, _)
InsertBy(s, x, is_float) ==
    IF s = <<>> THEN <<x>>
    ELSE IF sort_buf_cmp(is_float, x, s[Len(s)]) = "Less"
         THEN Append(InsertBy(SubSeq(s, 1, Len(s) - 1), x, is_float), s[Len(s)])
         ELSE Append(s, x)

RECURSIVE sort_by(_, _)
sort_by(s, is_float) ==
    IF s = <<>> THEN <<>>
    ELSE InsertBy(sort_by(SubSeq(s, 1, Len(s) - 1), is_float), s[Len(s)],
                  is_float)

\* sort_buf sorts the buffer in place.
sort_buf ==
    /\ ~buf.sorted
    /\ buf' = [buf EXCEPT !.data = sort_by(buf.data, buf.is_float),
                          !.sorted = TRUE]
    /\ UNCHANGED <<cmp, rollingVars, groupVars, arithVars>>

NextOrd ==
    \/ CompareNanMin
    \/ CompareNanMax
    \/ sort_buf

SpecOrd == InitOrd /\ [][NextOrd]_vars

\* ============================================================== group_tuples
\* Most rows of a key column, and of a float key column.
MaxRows == 4
MaxFloatRows == 3

\* The non-null keys, and what POOL.current_num_threads() can return.
GKeys == {1, 2}
NumThreads == {1, 2, 3}

\* A row of a key column: Option<T::Native>.
Key(v) == [null |-> FALSE, v |-> v]
NullKey == [null |-> TRUE, v |-> 0]
KeySet == {Key(v) : v \in GKeys} \cup {NullKey}

\* A non-null key is the bit pattern of its value.  The patterns only a float
\* has: the two zeros and two NaNs.
F_POS_ZERO == 4
F_NEG_ZERO == 5
F_NAN_A == 6
F_NAN_B == 7

Zeros == {F_POS_ZERO, F_NEG_ZERO}
NaNs == {F_NAN_A, F_NAN_B}

FloatKeySet == {Key(v) : v \in Zeros \cup NaNs \cup {1}} \cup {NullKey}

\* == of T::Native on two values: a NaN equals nothing, the zeros equal each
\* other, every other value equals itself only.
native_eq(a, b) ==
    IF a.v \in NaNs \/ b.v \in NaNs THEN FALSE
    ELSE IF a.v \in Zeros /\ b.v \in Zeros THEN TRUE
    ELSE a.v = b.v

\* Where a value stands in a sorted column: the zeros together below one,
\* the NaNs behind every number.
Rank(v) ==
    IF v \in Zeros THEN 0 ELSE IF v \in NaNs THEN F_NAN_B ELSE v

\* ca.len() above which num_groups_proxy goes to the worker pool.
GROUP_MULTITHREADED_LEN == 1000

RECURSIVE Flatten(_)
Flatten(chunks) ==
    IF chunks = <<>> THEN <<>> ELSE Head(chunks) \o Flatten(Tail(chunks))

null_count(a) == Cardinality({k \in 1..Len(a) : a[k].null})

\* The nulls of a sorted column are one run at one of its ends.
NullsAtOneEnd(rows) ==
    LET n == null_count(rows) IN
    \/ \A k \in 1..Len(rows) : rows[k].null <=> k <= n
    \/ \A k \in 1..Len(rows) : rows[k].null <=> k > Len(rows) - n

\* The sortedness flag of a column describes its rows.
FlagDescribes(rows, flag) ==
    LET InOrder(a, b) ==
            IF flag = "Ascending" THEN Rank(a.v) <= Rank(b.v)
            ELSE Rank(a.v) >= Rank(b.v)
    IN  flag # "Not" =>
            /\ NullsAtOneEnd(rows)
            /\ \A i, j \in 1..Len(rows) :
                 (i < j /\ ~rows[i].null /\ ~rows[j].null)
                     => InOrder(rows[i], rows[j])

\* A column is one chunk, or two chunks neither of which is empty.
Chunkings(rows) ==
    {<<rows>>} \cup {<<SubSeq(rows, 1, k), SubSeq(rows, k + 1, Len(rows))>> :
                        k \in 1..(Len(rows) - 1)}

ColumnsOf(keys, max_rows, float) ==
    UNION {{[chunks |-> c, flag |-> f, float |-> float] :
               c \in Chunkings(rows),
               f \in {g \in {"Ascending", "Descending", "Not"} :
                         FlagDescribes(rows, g)}} :
           rows \in SeqsUpTo(keys, max_rows)}

Columns == ColumnsOf(KeySet, MaxRows, FALSE)

\* The float columns that hold a zero or a NaN.
FloatColumns ==
    {c \in ColumnsOf(FloatKeySet, MaxFloatRows, TRUE) :
        \E k \in 1..Len(Flatten(c.chunks)) :
            Flatten(c.chunks)[k].v \in Zeros \cup NaNs}

\* The unsorted integer column [3, 1, 1, 3, 2].
FirstOccurrenceCol ==
    [chunks |-> <<<<Key(3), Key(1), Key(1), Key(3), Key(2)>>>>, flag |-> "Not",
     float |-> FALSE]

InitGroup ==
    /\ col \in Columns \cup FloatColumns \cup {FirstOccurrenceCol}
    /\ gcall = NoGCall
    /\ gout = NoGOut
    /\ pool = NoPool
    /\ arr = [values |-> <<>>, bits |-> <<>>, offset |-> 0]
    /\ RollingIdle
    /\ OrdIdle
    /\ ArithIdle

is_sorted_ascending_flag(ca) == ca.flag = "Ascending"
is_sorted_descending_flag(ca) == ca.flag = "Descending"
ca_len(ca) == Len(Flatten(ca.chunks))

group_multithreaded(ca) == ca_len(ca) > GROUP_MULTITHREADED_LEN

\* The elements of a finite set of integers in increasing order.
RECURSIVE Ascending(_)
Ascending(S) ==
    IF S = {} THEN <<>>
    ELSE LET m == CHOOSE x \in S : \A y \in S : x <= y
         IN  <<m>> \o Ascending(S \ {m})

\* Consecutive values equal to the first of their run collapse into
\* [first_index, length] pairs.
RECURSIVE Runs(_, _)
Runs(values, first_idx) ==
    IF values = <<>> THEN <<>>
    ELSE LET n == CHOOSE k \in 1..Len(values) :
                    /\ \A m \in 2..k : native_eq(values[m], values[1])
                    /\ k < Len(values) =>
                           ~native_eq(values[k + 1], values[1])
         IN  <<<<first_idx, n>>>>
                 \o Runs(SubSeq(values, n + 1, Len(values)), first_idx + n)

\* partition_to_groups: the run of nulls is one group of first_group_offset
\* rows, in front of the values when nulls_first and behind them otherwise.
partition_to_groups(values, first_group_offset, nulls_first, offset) ==
    IF values = <<>> THEN <<>>
    ELSE (IF nulls_first /\ first_group_offset > 0
          THEN <<<<0, first_group_offset>>>> ELSE <<>>)
         \o Runs(values,
                 (IF nulls_first THEN first_group_offset ELSE 0) + offset)
         \o (IF ~nulls_first /\ first_group_offset > 0
             THEN <<<<Len(values) + offset, first_group_offset>>>> ELSE <<>>)

\* create_clean_partitions: every way of cutting the values into at most
\* n contiguous parts with no cut inside a run of equal values.  A
\* partitioning is the increasing sequence of its parts' start offsets.
create_clean_partitions(values, n) ==
    {Ascending({0} \cup cuts) :
        cuts \in {C \in SUBSET {k \in 1..(Len(values) - 1) :
                                   ~native_eq(values[k], values[k + 1])} :
                     Cardinality(C) <= n - 1}}

\* Mutant: a partition behind the first forgets the nulls in front of it.
PartitionGroups_without_null_count(values, parts, i, nc, nulls_first) ==
    LET n_parts == Len(parts)
        part    == SubSeq(values, parts[i] + 1,
                          IF i < n_parts THEN parts[i + 1] ELSE Len(values))
        offset  == parts[i]
    IN  IF nulls_first /\ i = 1
        THEN partition_to_groups(part, nc, TRUE, offset)
        ELSE IF ~nulls_first /\ i = n_parts
        THEN partition_to_groups(part, nc, FALSE, offset)
        ELSE partition_to_groups(part, 0, FALSE, offset)

\* The groups one worker returns for partition i of parts.
PartitionGroups(values, parts, i, nc, nulls_first) ==
    LET n_parts == Len(parts)
        part    == SubSeq(values, parts[i] + 1,
                          IF i < n_parts THEN parts[i + 1] ELSE Len(values))
        offset  == parts[i]
    IN  IF nulls_first /\ i = 1
        THEN partition_to_groups(part, nc, TRUE, offset)
        ELSE IF ~nulls_first /\ i = n_parts
        THEN partition_to_groups(part, nc, FALSE, offset)
        ELSE partition_to_groups(part, 0, FALSE,
                                 IF nulls_first THEN offset + nc ELSE offset)

\* Mutant: the run of nulls is no group.
create_groups_from_sorted_without_nulls(ca, multithreaded, n_threads) ==
    LET a      == ca.chunks[1]
        length == Len(a)
        nc     == null_count(a)
        nulls_first == nc > 0 /\ a[1].null
        values == IF nulls_first THEN SubSeq(a, nc + 1, length)
                  ELSE SubSeq(a, 1, length - nc)
    IN  {partition_to_groups(values, 0, FALSE, IF nulls_first THEN nc ELSE 0)}

\* create_groups_from_sorted: the slices it can return, one per clean
\* partitioning the pool may be handed.  Only the first chunk is read.
create_groups_from_sorted(ca, multithreaded, n_threads) ==
    LET a      == ca.chunks[1]
        length == Len(a)
        nc     == null_count(a)
        nulls_first == nc > 0 /\ a[1].null
        values == IF nulls_first THEN SubSeq(a, nc + 1, length)
                  ELSE SubSeq(a, 1, length - nc)
    IN  IF a = <<>> THEN {<<>>}
        ELSE IF nc = length THEN {<<<<0, length>>>>}
        ELSE IF multithreaded /\ n_threads > 1
        THEN {Flatten([i \in 1..Len(parts) |->
                          PartitionGroups(values, parts, i, nc, nulls_first)]) :
                 parts \in create_clean_partitions(values, n_threads)}
        ELSE {partition_to_groups(values, nc, nulls_first, 0)}

\* Mutant: a group's first is the last row of its key.
LastOccurrenceGroups(keys) ==
    LET lasts == {r \in 0..(Len(keys) - 1) :
                     \A q \in (r + 1)..(Len(keys) - 1) :
                         keys[q + 1] # keys[r + 1]}
        order == Ascending(lasts)
    IN  [g \in 1..Len(order) |->
            <<order[g],
              Ascending({r \in 0..(Len(keys) - 1) :
                            keys[r + 1] = keys[order[g] + 1]})>>]

\* The Idx groups of a key sequence in order of first occurrence: each is
\* (first, all) with all the rows of one key in increasing order.
FirstOccurrenceGroups(keys) ==
    LET firsts == {r \in 0..(Len(keys) - 1) :
                      \A q \in 0..(r - 1) : keys[q + 1] # keys[r + 1]}
        order  == Ascending(firsts)
    IN  [g \in 1..Len(order) |->
            <<order[g],
              Ascending({r \in 0..(Len(keys) - 1) :
                            keys[r + 1] = keys[order[g] + 1]})>>]

Orderings(groups) ==
    {[g \in 1..Len(groups) |-> groups[p[g]]] :
        p \in {q \in [1..Len(groups) -> 1..Len(groups)] :
                  \A x, y \in 1..Len(groups) : x # y => q[x] # q[y]}}

\* Mutant: the groups leave the map in its order whatever sorted says.
groupby_ignores_sorted(keys, sorted) ==
    Orderings(FirstOccurrenceGroups(keys))

\* groupby: one hash map filled in row order; the groups leave it in the
\* map's order unless sorted asks for the order of first occurrence.
groupby(keys, sorted) ==
    IF sorted THEN {FirstOccurrenceGroups(keys)}
    ELSE Orderings(FirstOccurrenceGroups(keys))

\* AsU64: what picks the partition of a key.  A hashed key gives its hash,
\* a number itself, a null number a fixed value.
AsU64(k) ==
    IF "h" \in DOMAIN k THEN k.h ELSE IF k.null THEN 0 ELSE k.v

\* The groups of the partitions 0..n_partitions-1 in partition order, each
\* partition's in order of first occurrence; part[r + 1] is the partition of
\* row r, and a partition groups the rows assigned to it.
PartitionedGroups(rows, part, n_partitions) ==
    LET Mine(p) == {r \in 0..(Len(rows) - 1) : part[r + 1] = p}
        Firsts(p) == {r \in Mine(p) :
                         \A q \in Mine(p) : q < r => rows[q + 1] # rows[r + 1]}
        Groups(p) ==
            LET order == Ascending(Firsts(p))
            IN  [g \in 1..Len(order) |->
                    <<order[g],
                      Ascending({r \in Mine(p) :
                                    rows[r + 1] = rows[order[g] + 1]})>>]
    IN  Flatten([p \in 1..n_partitions |-> Groups(p - 1)])

\* groupby_threaded_num: keys is one vector per row range.  A row belongs to
\* partition hash mod n_partitions; the partitions' results are concatenated
\* by partition id, each in order of first occurrence when sorted and in its
\* map's order otherwise.
groupby_threaded_num(keys, n_partitions, sorted) ==
    LET rows == Flatten(keys)
        part == [r \in 1..Len(rows) |-> AsU64(rows[r]) % n_partitions]
        groups == PartitionedGroups(rows, part, n_partitions)
    IN  IF sorted THEN {groups}
        ELSE {o \in Orderings(groups) :
                 \A x, y \in 1..Len(o) :
                     x < y => part[o[x][1] + 1] <= part[o[y][1] + 1]}

\* _set_partition_size(): derived from the workers of the pool.
set_partition_size(n_threads) == n_threads

num_groups_proxy(ca, multithreaded, sorted, n_partitions) ==
    IF multithreaded /\ group_multithreaded(ca)
    THEN groupby_threaded_num(<<Flatten(ca.chunks)>>, n_partitions, sorted)
    ELSE groupby(Flatten(ca.chunks), sorted)

\* The condition of the sorted path as Rust parses it: && binds tighter
\* than ||.
TakesSortedPath(ca) ==
    \/ is_sorted_ascending_flag(ca)
    \/ (is_sorted_descending_flag(ca) /\ Len(ca.chunks) = 1)

\* What create_groups_from_sorted works on: the first chunk, its nulls and
\* the run of its non-null values.
SortedNullCount(ca) == null_count(ca.chunks[1])

SortedNullsFirst(ca) == SortedNullCount(ca) > 0 /\ ca.chunks[1][1].null

SortedValues(ca) ==
    LET a == ca.chunks[1]
    IN  IF SortedNullsFirst(ca)
        THEN SubSeq(a, SortedNullCount(ca) + 1, Len(a))
        ELSE SubSeq(a, 1, Len(a) - SortedNullCount(ca))

\* create_groups_from_sorted reaches POOL.install.
SortedRunsParallel(ca, multithreaded, n_threads) ==
    /\ ca.chunks[1] # <<>>
    /\ SortedNullCount(ca) # Len(ca.chunks[1])
    /\ multithreaded /\ n_threads > 1

\* A slot of the vector a parallel map collects into: empty until the worker
\* of that position has returned.
EmptySlot == [some |-> FALSE, val |-> <<>>]

FilledSlot(v) == [some |-> TRUE, val |-> v]

\* Mutant: the results are taken in the order the workers returned.
collect_in_completion_order(slots, order) ==
    [k \in 1..Len(order) |-> slots[order[k]].val]

\* collect::<Vec<_>>() of an indexed parallel iterator: the results in the
\* order of their positions, whatever the order the workers returned in.
collect(slots, order) == [k \in 1..Len(slots) |-> slots[k].val]

\* group_tuples on a numeric key column.  The sorted path with a pool of more
\* than one worker hands the clean partitions to the pool; every other path
\* returns at once.
group_tuples ==
    /\ gout.status = "idle"
    /\ \E multithreaded, sorted \in BOOLEAN, n_threads \in NumThreads :
        /\ gcall' = [NoGCall EXCEPT
                       !.dtype = "numeric", !.multithreaded = multithreaded,
                       !.sorted = sorted, !.n_threads = n_threads]
        /\ IF TakesSortedPath(col)
           THEN IF SortedRunsParallel(col, multithreaded, n_threads)
                THEN \E parts \in create_clean_partitions(SortedValues(col),
                                                          n_threads) :
                        /\ pool' = [NoPool EXCEPT
                                      !.region = "sorted",
                                      !.tasks = parts,
                                      !.slots = [k \in 1..Len(parts) |->
                                                    EmptySlot]]
                        /\ gout' = [status |-> "running", path |-> "sorted",
                                    variant |-> "Slice", groups |-> <<>>]
                ELSE /\ \E groups \in create_groups_from_sorted(
                                          col, multithreaded, n_threads) :
                            gout' = [status |-> "done", path |-> "sorted",
                                     variant |-> "Slice", groups |-> groups]
                     /\ pool' = pool
           ELSE /\ \E groups \in num_groups_proxy(
                                     col, multithreaded, sorted,
                                     set_partition_size(n_threads)) :
                       gout' = [status |-> "done", path |-> "hash",
                                variant |-> "Idx", groups |-> groups]
                /\ pool' = pool
    /\ UNCHANGED <<col, rollingVars, ordVars, arithVars>>

\* One worker of parts.par_iter().enumerate().map: it takes a partition no
\* worker has taken and returns that partition's groups.
SortedWorker ==
    /\ gout.status = "running"
    /\ pool.region = "sorted"
    /\ \E i \in 1..Len(pool.tasks) :
        /\ ~pool.slots[i].some
        /\ pool' = [pool EXCEPT
                      !.slots[i] = FilledSlot(
                          PartitionGroups(SortedValues(col), pool.tasks, i,
                                          SortedNullCount(col),
                                          SortedNullsFirst(col))),
                      !.order = Append(@, i)]
    /\ UNCHANGED <<col, gcall, gout, rollingVars, ordVars, arithVars>>

\* The join of the sorted path: collect, then flatten(&groups, None).
SortedJoin ==
    /\ gout.status = "running"
    /\ pool.region = "sorted"
    /\ \A i \in 1..Len(pool.tasks) : pool.slots[i].some
    /\ gout' = [gout EXCEPT
                  !.status = "done",
                  !.groups = Flatten(collect(pool.slots, pool.order))]
    /\ UNCHANGED <<col, gcall, pool, rollingVars, ordVars, arithVars>>

\* ------------------------------------------------- group_tuples, string keys
\* The values hb.hash_single and get_null_hash_value can return, and the
\* strings a hasher is asked about: the keys of a column.
HashVals == {0, 1}

Strings == 1..3

\* RandomState::default(): some hasher, with some hash for null.  A hasher is
\* told apart only by the hashes of the strings of the column.
Hashers(ca) ==
    {hb \in [Strings -> HashVals] :
        \A v \in Strings :
            (\A k \in 1..ca_len(ca) :
                 Flatten(ca.chunks)[k].null \/ Flatten(ca.chunks)[k].v # v)
                => hb[v] = 0}

\* Mutant: two keys are equal when their hashes are.
bytes_hash_without_payload(hb, null_h, opt_s) ==
    [payload |-> NullKey, h |-> IF opt_s.null THEN null_h ELSE hb[opt_s.v]]

\* The closure of the map over the rows: BytesHash::new_from_str(opt_s, hash)
\* with hash = hb.hash_single(s), or null_h for a null.
bytes_hash(hb, null_h, opt_s) ==
    [payload |-> opt_s, h |-> IF opt_s.null THEN null_h ELSE hb[opt_s.v]]

\* _split_offsets(len, n): n contiguous (offset, len) ranges, the last one
\* taking the remainder.
split_offsets(len, n) ==
    IF n = 1 THEN <<<<0, len>>>>
    ELSE LET chunk_size == len \div n
         IN  [k \in 1..n |->
                 <<(k - 1) * chunk_size,
                   IF k = n THEN len - (k - 1) * chunk_size
                   ELSE chunk_size>>]

\* self.slice(offset, len).into_iter(): the rows of the range, over all
\* chunks.
slice(ca, offset, len) == SubSeq(Flatten(ca.chunks), offset + 1, offset + len)

\* Mutant: every row range is hashed with a hasher of its own.
RangeHashesOwnHasher(ca, hb, null_h, range) ==
    LET rows == slice(ca, range[1], range[2])
    IN  [k \in 1..Len(rows) |->
            [payload |-> rows[k],
             h |-> IF range[1] = 0 THEN bytes_hash(hb, null_h, rows[k]).h
                   ELSE 1 - bytes_hash(hb, null_h, rows[k]).h]]

\* The hashes of a row range.
RangeHashes(ca, hb, null_h, range) ==
    LET rows == slice(ca, range[1], range[2])
    IN  [k \in 1..Len(rows) |-> bytes_hash(hb, null_h, rows[k])]

\* The body group_tuples has for string keys and for lists of numbers:
\* multithreaded hands the row ranges to the pool, whatever the length of the
\* column; otherwise the rows are hashed in order and grouped at once.
HashAndGroup(multithreaded, sorted, n_threads, hb, null_h) ==
    IF multithreaded
    THEN LET split == split_offsets(ca_len(col),
                                    set_partition_size(n_threads))
         IN  /\ pool' = [region |-> "hash", tasks |-> split,
                         slots |-> [k \in 1..Len(split) |-> EmptySlot],
                         order |-> <<>>, hb |-> hb, null_h |-> null_h]
             /\ gout' = [status |-> "running", path |-> "hash",
                         variant |-> "Idx", groups |-> <<>>]
    ELSE LET str_hashes ==
                 RangeHashes(col, hb, null_h, <<0, ca_len(col)>>)
         IN  /\ pool' = [NoPool EXCEPT
                           !.slots = <<FilledSlot(str_hashes)>>,
                           !.hb = hb, !.null_h = null_h]
             /\ \E groups \in groupby(str_hashes, sorted) :
                    gout' = [status |-> "done", path |-> "hash",
                             variant |-> "Idx", groups |-> groups]

\* group_tuples on a string key column.
group_tuples_utf8 ==
    /\ gout.status = "idle"
    /\ ~col.float
    /\ \E multithreaded, sorted \in BOOLEAN, n_threads \in NumThreads,
          hb \in Hashers(col), null_h \in HashVals :
        /\ gcall' = [NoGCall EXCEPT
                       !.dtype = "utf8", !.multithreaded = multithreaded,
                       !.sorted = sorted, !.n_threads = n_threads]
        /\ HashAndGroup(multithreaded, sorted, n_threads, hb, null_h)
    /\ UNCHANGED <<col, rollingVars, ordVars, arithVars>>

\* Mutant: every inner type passes for numeric.
is_numeric_always(inner_numeric) == TRUE

\* self.inner_dtype().to_physical().is_numeric()
is_numeric(inner_numeric) == inner_numeric

\* group_tuples on a list key column: without the groupby_list feature it
\* panics; a list of anything but numbers is an Err; a list of numbers is
\* hashed by its bytes and grouped as strings are.  A list column carries no
\* sortedness flag.
group_tuples_list ==
    /\ gout.status = "idle"
    /\ ~col.float
    /\ col.flag = "Not"
    /\ \E multithreaded, sorted \in BOOLEAN, n_threads \in NumThreads,
          inner_numeric, groupby_list \in BOOLEAN,
          hb \in Hashers(col), null_h \in HashVals :
        /\ gcall' = [dtype |-> "list", multithreaded |-> multithreaded,
                     sorted |-> sorted, n_threads |-> n_threads,
                     inner_numeric |-> inner_numeric,
                     groupby_list |-> groupby_list]
        /\ IF ~groupby_list
           THEN /\ gout' = [NoGOut EXCEPT !.status = "panicked"]
                /\ pool' = pool
           ELSE IF ~is_numeric(inner_numeric)
           THEN /\ gout' = [NoGOut EXCEPT !.status = "error"]
                /\ pool' = pool
           ELSE HashAndGroup(multithreaded, sorted, n_threads, hb, null_h)
    /\ UNCHANGED <<col, rollingVars, ordVars, arithVars>>

\* One worker of split.into_par_iter().map: the hashes of one row range.
HashWorker ==
    /\ gout.status = "running"
    /\ pool.region = "hash"
    /\ \E i \in 1..Len(pool.tasks) :
        /\ ~pool.slots[i].some
        /\ pool' = [pool EXCEPT
                      !.slots[i] = FilledSlot(
                          RangeHashes(col, pool.hb, pool.null_h,
                                      pool.tasks[i])),
                      !.order = Append(@, i)]
    /\ UNCHANGED <<col, gcall, gout, rollingVars, ordVars, arithVars>>

\* The join of the string path: collect, then groupby_threaded_num.
HashJoin ==
    /\ gout.status = "running"
    /\ pool.region = "hash"
    /\ \A i \in 1..Len(pool.tasks) : pool.slots[i].some
    /\ \E groups \in groupby_threaded_num(
                         collect(pool.slots, pool.order),
                         set_partition_size(gcall.n_threads), gcall.sorted) :
           gout' = [gout EXCEPT !.status = "done", !.groups = groups]
    /\ UNCHANGED <<col, gcall, pool, rollingVars, ordVars, arithVars>>

NextGroup ==
    \/ group_tuples
    \/ SortedWorker
    \/ SortedJoin
    \/ group_tuples_utf8
    \/ group_tuples_list
    \/ HashWorker
    \/ HashJoin

SpecGroup == InitGroup /\ [][NextGroup]_vars

\* ================================================================ arithmetic
\* The width of T::Native in bits, and the most rows of an operand.
IntBits == 2
MaxArithLen == 3

\* T::Native::MIN and MAX of a signed integer of IntBits bits.
IntMin == -(2 ^ (IntBits - 1))
IntMax == 2 ^ (IntBits - 1) - 1
IntVals == IntMin..IntMax

\* What + - * leave in the register without overflow checks: the result
\* modulo 2^IntBits.
wrapping(x) == ((x - IntMin) % (2 ^ IntBits)) + IntMin

abs(x) == IF x < 0 THEN -x ELSE x

\* / and % of Rust integers: the quotient is rounded towards zero.
trunc_div(a, b) ==
    LET q == abs(a) \div abs(b)
    IN  IF (a < 0) # (b < 0) THEN -q ELSE q

trunc_rem(a, b) == a - b * trunc_div(a, b)

Ops == {"add", "sub", "mul", "div", "rem"}

\* l op r in the integers.
exact(op, l, r) ==
    CASE op = "add" -> l + r
      [] op = "sub" -> l - r
      [] op = "mul" -> l * r
      [] op = "div" -> trunc_div(l, r)
      [] op = "rem" -> trunc_rem(l, r)

\* l op r panics: a division by zero and MIN / -1 in every build, an
\* overflow of + - * in a build with overflow checks.
op_panics(op, l, r, overflow_checks) ==
    IF op \in {"div", "rem"} THEN r = 0 \/ (l = IntMin /\ r = -1)
    ELSE overflow_checks /\ exact(op, l, r) \notin IntVals

\* The closure |lhs, rhs| lhs op rhs where it does not panic.
operation(op, l, r) == wrapping(exact(op, l, r))

\* The operands of the closure at a value of the column: the other operand is
\* on the left in the broadcast of a one-row left operand.
Left(v, other, other_left) == IF other_left THEN other ELSE v
Right(v, other, other_left) == IF other_left THEN v ELSE other

apply_panics(rows, op, other, other_left, overflow_checks) ==
    \E k \in 1..Len(rows) :
        /\ ~rows[k].null
        /\ op_panics(op, Left(rows[k].v, other, other_left),
                     Right(rows[k].v, other, other_left), overflow_checks)

\* ca.apply(f): f on every value, the nulls kept.
apply(rows, op, other, other_left) ==
    [k \in 1..Len(rows) |->
        IF rows[k].null THEN NullKey
        ELSE Key(operation(op, Left(rows[k].v, other, other_left),
                           Right(rows[k].v, other, other_left)))]

\* The sortedness flag of a column after apply_mut: the values were changed
\* in place, so the flag is reset.
apply_mut_flag(flag) == "Not"

full_null(length) == [k \in 1..length |-> NullKey]

kernel_panics(op, a, b, overflow_checks) ==
    \E k \in 1..Len(a) :
        /\ ~a[k].null /\ ~b[k].null
        /\ op_panics(op, a[k].v, b[k].v, overflow_checks)

\* The kernel on two arrays of one length: a row is null when either is.
kernel(op, a, b) ==
    [k \in 1..Len(a) |->
        IF a[k].null \/ b[k].null THEN NullKey
        ELSE Key(operation(op, a[k].v, b[k].v))]

\* IsSorted::reverse.
reverse(flag) ==
    IF flag = "Ascending" THEN "Descending"
    ELSE IF flag = "Descending" THEN "Ascending" ELSE "Not"

\* The rows are in the order the flag names: the nulls at one end, the values
\* non-decreasing or non-increasing.
InFlagOrder(rows, flag) ==
    flag # "Not" =>
        /\ NullsAtOneEnd(rows)
        /\ \A i, j \in 1..Len(rows) :
             (i < j /\ ~rows[i].null /\ ~rows[j].null) =>
                 IF flag = "Ascending" THEN rows[i].v <= rows[j].v
                 ELSE rows[i].v >= rows[j].v

OperandsOf(vals, max_len) ==
    {[rows |-> rows, flag |-> f] :
        rows \in SeqsUpTo({Key(v) : v \in vals} \cup {NullKey}, max_len),
        f \in {"Ascending", "Descending", "Not"}} \cap
    {c \in [rows : SeqsUpTo({Key(v) : v \in vals} \cup {NullKey}, max_len),
            flag : {"Ascending", "Descending", "Not"}] :
        InFlagOrder(c.rows, c.flag)}

\* The left operands: integer columns with a truthful flag.
ArithColumns == OperandsOf(IntVals, MaxArithLen)

\* The right operands of a column-by-column operation.
RhsColumns == OperandsOf({-1, 1}, MaxArithLen)

InitArith ==
    /\ lhs \in ArithColumns
    /\ acall = NoACall
    /\ aout = NoAOut
    /\ arr = [values |-> <<>>, bits |-> <<>>, offset |-> 0]
    /\ RollingIdle
    /\ GroupIdle
    /\ OrdIdle

Panicked == [NoAOut EXCEPT !.status = "panicked"]

Done(rows, flag) == [status |-> "done", rows |-> rows, flag |-> flag]

\* &ca + n: apply, then the flag of the input.
Add_N ==
    /\ aout.status = "idle"
    /\ \E rhs \in IntVals, overflow_checks \in BOOLEAN :
        /\ acall' = [NoACall EXCEPT !.op = "add", !.kind = "scalar",
                                    !.scalar = rhs,
                                    !.overflow_checks = overflow_checks]
        /\ aout' = IF apply_panics(lhs.rows, "add", rhs, FALSE,
                                   overflow_checks)
                   THEN Panicked
                   ELSE Done(apply(lhs.rows, "add", rhs, FALSE), lhs.flag)
    /\ UNCHANGED <<lhs, rollingVars, groupVars, ordVars>>

\* &ca - n: apply, then the flag of the input.
Sub_N ==
    /\ aout.status = "idle"
    /\ \E rhs \in IntVals, overflow_checks \in BOOLEAN :
        /\ acall' = [NoACall EXCEPT !.op = "sub", !.kind = "scalar",
                                    !.scalar = rhs,
                                    !.overflow_checks = overflow_checks]
        /\ aout' = IF apply_panics(lhs.rows, "sub", rhs, FALSE,
                                   overflow_checks)
                   THEN Panicked
                   ELSE Done(apply(lhs.rows, "sub", rhs, FALSE), lhs.flag)
    /\ UNCHANGED <<lhs, rollingVars, groupVars, ordVars>>

\* &ca / n: div_scalar, then the flag of the input, reversed for a negative n.
Div_N ==
    /\ aout.status = "idle"
    /\ \E rhs \in IntVals, overflow_checks \in BOOLEAN :
        /\ acall' = [NoACall EXCEPT !.op = "div", !.kind = "scalar",
                                    !.scalar = rhs,
                                    !.overflow_checks = overflow_checks]
        /\ aout' = IF apply_panics(lhs.rows, "div", rhs, FALSE,
                                   overflow_checks)
                   THEN Panicked
                   ELSE Done(apply(lhs.rows, "div", rhs, FALSE),
                             IF rhs < 0 THEN reverse(lhs.flag) ELSE lhs.flag)
    /\ UNCHANGED <<lhs, rollingVars, groupVars, ordVars>>

\* &ca * n and ca * n: apply sets no flag; with ASSIGN in the environment the
\* owned column is multiplied in place by apply_mut.
Mul_N ==
    /\ aout.status = "idle"
    /\ \E rhs \in IntVals, overflow_checks, assign \in BOOLEAN :
        /\ acall' = [NoACall EXCEPT !.op = "mul", !.kind = "scalar",
                                    !.scalar = rhs, !.assign = assign,
                                    !.overflow_checks = overflow_checks]
        /\ aout' = IF apply_panics(lhs.rows, "mul", rhs, FALSE,
                                   overflow_checks)
                   THEN Panicked
                   ELSE Done(apply(lhs.rows, "mul", rhs, FALSE),
                             IF assign THEN apply_mut_flag(lhs.flag)
                             ELSE "Not")
    /\ UNCHANGED <<lhs, rollingVars, groupVars, ordVars>>

\* &ca % n: rem_scalar sets no flag.
Rem_N ==
    /\ aout.status = "idle"
    /\ \E rhs \in IntVals, overflow_checks \in BOOLEAN :
        /\ acall' = [NoACall EXCEPT !.op = "rem", !.kind = "scalar",
                                    !.scalar = rhs,
                                    !.overflow_checks = overflow_checks]
        /\ aout' = IF apply_panics(lhs.rows, "rem", rhs, FALSE,
                                   overflow_checks)
                   THEN Panicked
                   ELSE Done(apply(lhs.rows, "rem", rhs, FALSE), "Not")
    /\ UNCHANGED <<lhs, rollingVars, groupVars, ordVars>>

\* The broadcast of the one row of one operand over the rows of the other;
\* flag is the flag of the result where the closure was applied.
Broadcast(op, one, rows, one_left, overflow_checks, flag) ==
    IF one.null THEN Done(full_null(Len(rows)), "Not")
    ELSE IF apply_panics(rows, op, one.v, one_left, overflow_checks)
    THEN Panicked
    ELSE Done(apply(rows, op, one.v, one_left), flag)

\* arithmetic_helper: the result of &lhs op &rhs.
arithmetic_helper(a, b, op, overflow_checks) ==
    IF Len(a.rows) = Len(b.rows)
    THEN IF kernel_panics(op, a.rows, b.rows, overflow_checks) THEN Panicked
         ELSE Done(kernel(op, a.rows, b.rows), "Not")
    ELSE IF Len(b.rows) = 1
    THEN Broadcast(op, b.rows[1], a.rows, FALSE, overflow_checks, "Not")
    ELSE IF Len(a.rows) = 1
    THEN Broadcast(op, a.rows[1], b.rows, TRUE, overflow_checks, "Not")
    ELSE Panicked

\* arithmetic_helper_owned: the result of lhs op rhs, computed in the buffer
\* of an operand.
arithmetic_helper_owned(a, b, op, overflow_checks) ==
    IF Len(a.rows) = Len(b.rows)
    THEN IF kernel_panics(op, a.rows, b.rows, overflow_checks) THEN Panicked
         ELSE Done(kernel(op, a.rows, b.rows), "Not")
    ELSE IF Len(b.rows) = 1
    THEN Broadcast(op, b.rows[1], a.rows, FALSE, overflow_checks,
                   apply_mut_flag(a.flag))
    ELSE IF Len(a.rows) = 1
    THEN Broadcast(op, a.rows[1], b.rows, TRUE, overflow_checks,
                   apply_mut_flag(b.flag))
    ELSE Panicked

\* &lhs op &rhs for + - * / %, and lhs % rhs, which borrows.
BinaryBorrowed ==
    /\ aout.status = "idle"
    /\ \E op \in Ops, rhs \in RhsColumns, overflow_checks \in BOOLEAN :
        /\ acall' = [NoACall EXCEPT !.op = op, !.kind = "borrowed",
                                    !.rhs = rhs,
                                    !.overflow_checks = overflow_checks]
        /\ aout' = arithmetic_helper(lhs, rhs, op, overflow_checks)
    /\ UNCHANGED <<lhs, rollingVars, groupVars, ordVars>>

\* lhs op rhs for + - * /.
BinaryOwned ==
    /\ aout.status = "idle"
    /\ \E op \in Ops \ {"rem"}, rhs \in RhsColumns,
          overflow_checks \in BOOLEAN :
        /\ acall' = [NoACall EXCEPT !.op = op, !.kind = "owned",
                                    !.rhs = rhs,
                                    !.overflow_checks = overflow_checks]
        /\ aout' = arithmetic_helper_owned(lhs, rhs, op, overflow_checks)
    /\ UNCHANGED <<lhs, rollingVars, groupVars, ordVars>>

\* concat_strings and concat_binary_arrs; a string is the sequence of its
\* characters, an operand's string is one character.
concat(l, r) == l \o r

Str(row) == <<row.v>>

\* Add for &Utf8Chunked and for &BinaryChunked: the two broadcasts, then the
\* zip of the two iterators, which ends with the shorter.
add_bytes(a, b) ==
    IF Len(b.rows) = 1
    THEN IF b.rows[1].null THEN Done(full_null(Len(a.rows)), "Not")
         ELSE Done([k \in 1..Len(a.rows) |->
                       IF a.rows[k].null THEN NullKey
                       ELSE Key(concat(Str(a.rows[k]), Str(b.rows[1])))],
                   "Not")
    ELSE IF Len(a.rows) = 1
    THEN IF a.rows[1].null THEN Done(full_null(Len(b.rows)), "Not")
         ELSE Done([k \in 1..Len(b.rows) |->
                       IF b.rows[k].null THEN NullKey
                       ELSE Key(concat(Str(a.rows[1]), Str(b.rows[k])))],
                   "Not")
    ELSE LET n == IF Len(a.rows) < Len(b.rows) THEN Len(a.rows)
                  ELSE Len(b.rows)
         IN  Done([k \in 1..n |->
                      IF a.rows[k].null \/ b.rows[k].null THEN NullKey
                      ELSE Key(concat(Str(a.rows[k]), Str(b.rows[k])))],
                  "Not")

\* &lhs + &rhs on string columns; the values of the operands stand for their
\* strings.
Add_Utf8 ==
    /\ aout.status = "idle"
    /\ lhs.flag = "Not"
    /\ \E rhs \in {c \in RhsColumns : c.flag = "Not"} :
        /\ acall' = [NoACall EXCEPT !.op = "add", !.kind = "utf8",
                                    !.rhs = rhs]
        /\ aout' = add_bytes(lhs, rhs)
    /\ UNCHANGED <<lhs, rollingVars, groupVars, ordVars>>

\* &lhs + &rhs on byte-string columns.
Add_Binary ==
    /\ aout.status = "idle"
    /\ lhs.flag = "Not"
    /\ \E rhs \in {c \in RhsColumns : c.flag = "Not"} :
        /\ acall' = [NoACall EXCEPT !.op = "add", !.kind = "binary",
                                    !.rhs = rhs]
        /\ aout' = add_bytes(lhs, rhs)
    /\ UNCHANGED <<lhs, rollingVars, groupVars, ordVars>>

NextArith ==
    \/ Add_N
    \/ Sub_N
    \/ Div_N
    \/ Mul_N
    \/ Rem_N
    \/ BinaryBorrowed
    \/ BinaryOwned
    \/ Add_Utf8
    \/ Add_Binary

SpecArith == InitArith /\ [][NextArith]_vars

\* ================================================================ properties
\* What the properties read off the state.
LenArr == Len(arr.values)

\* Row k of the input column holds a value (its validity bit is set).
RowValid(k) == arr.bits[arr.offset + k + 1]

\* The number of valid rows in [start, end).
CountValid(start, end) == Cardinality({k \in start..(end - 1) : RowValid(k)})

RECURSIVE SumOfRows(_)
SumOfRows(rows) ==
    IF rows = {} THEN 0
    ELSE LET k == CHOOSE x \in rows : TRUE
         IN arr.values[k + 1] + SumOfRows(rows \ {k})

\* The sum of the valid rows in [start, end).
SumOfValid(start, end) ==
    SumOfRows({k \in start..(end - 1) : RowValid(k)})

\* The bitmap has no unset bit over the column's rows.
FullyValid == \A k \in 0..(LenArr - 1) : RowValid(k)

ReturnedBy(kinds) == status = "done" /\ call.kind \in kinds

CalledWith(kind, window_size, min_periods, center) ==
    /\ status = "done"
    /\ call = [kind |-> kind, window_size |-> window_size,
               min_periods |-> min_periods, center |-> center,
               weights |-> FALSE]

\* The returned column: validity as given, and the given numbers where valid.
Returned(vals, valid) ==
    /\ out.validity = valid
    /\ Len(out.values) = Len(vals)
    /\ \A k \in 1..Len(vals) : valid[k] => out.values[k] = FromInt(vals[k])

\* ---------------------------------------------------------------------- C1
\* C1: for rolling_sum, rolling_mean and rolling_var over a nullable column,
\* every window_size >= 1, every min_periods, trailing and centered alignment
\* and every position i, the output at i is null if and only if the number of
\* valid source values inside the window [start, end) of position i is
\* < min_periods.
C1_WindowNullCountLaw ==
    (ReturnedBy({"sum", "mean", "var"}) /\ call.window_size >= 1) =>
        \A i \in 0..(LenArr - 1) :
            (~out.validity[i + 1])
                <=> (CountValid(windows[i + 1][1], windows[i + 1][2])
                        < call.min_periods)

\* A centered rolling_mean over a bitmap with a bit offset: one position is
\* null although its window is long enough (too few valid values), another
\* position is not null.
C1_Witness ==
    /\ ReturnedBy({"mean"})
    /\ call.center /\ call.window_size >= 1 /\ call.min_periods = 2
    /\ arr.offset = 1
    /\ \E i, j \in 0..(LenArr - 1) :
        /\ windows[i + 1][2] - windows[i + 1][1] >= call.min_periods
        /\ CountValid(windows[i + 1][1], windows[i + 1][2]) < call.min_periods
        /\ ~out.validity[i + 1]
        /\ out.validity[j + 1]

\* ---------------------------------------------------------------------- C4
CeilHalf(n) == CHOOSE r \in 0..(n + 1) : 2 * r >= n /\ 2 * r < n + 2

FloorHalf(n) == CHOOSE r \in 0..(n + 1) : 2 * r <= n /\ 2 * r > n - 2

CenteredWindow(i, right) ==
    <<Max(0, i - (call.window_size - right)), Min(LenArr, i + right)>>

\* C4 as stated: for every window_size >= 1, len and position 0 <= i < len,
\* det_offsets_center returns start = max(0, i - (window_size - right)) and
\* end = min(len, i + right) where right = ceil((window_size + 1) / 2).
C4_CenteredCeil ==
    (call.center /\ call.window_size >= 1) =>
        \A k \in 1..Len(windows) :
            windows[k] = CenteredWindow(k - 1, CeilHalf(call.window_size + 1))

\* C4 amended: the same with right = floor((window_size + 1) / 2).
C4_CenteredFloor ==
    (call.center /\ call.window_size >= 1) =>
        \A k \in 1..Len(windows) :
            windows[k] = CenteredWindow(k - 1, FloorHalf(call.window_size + 1))

\* A centered call with an even window_size whose windows are cut at both
\* ends of the column.
C4_Witness ==
    /\ status = "done" /\ call.center /\ call.window_size = 4
    /\ LenArr >= 3
    /\ Len(windows) = LenArr
    /\ windows[1][1] = 0 /\ windows[1][2] = 2
    /\ windows[LenArr][2] = LenArr /\ windows[LenArr][1] = LenArr - 3

\* ---------------------------------------------------------------------- C5
\* C5: for every window_size >= 1 and position 0 <= i < len, det_offsets
\* returns start = max(0, i - window_size + 1) and end = i + 1: the window
\* ends at row i whatever len is.
C5_TrailingWindow ==
    (~call.center /\ call.window_size >= 1) =>
        \A k \in 1..Len(windows) :
            windows[k] = <<Max(0, (k - 1) - call.window_size + 1), k>>

\* A trailing call whose first window is cut at row 0 and whose last one is
\* not.
C5_Witness ==
    /\ status = "done" /\ ~call.center /\ call.window_size = 2
    /\ LenArr >= 3
    /\ Len(windows) = LenArr
    /\ windows[1] = <<0, 1>>
    /\ windows[LenArr] = <<LenArr - 2, LenArr>>

\* ---------------------------------------------------------------------- C6
\* C6: for both offset policies, every window_size, every len and every
\* position 0 <= i < len, the window satisfies start <= end and
\* end - start <= window_size.
C6_WindowLengthBounded ==
    \A k \in 1..Len(windows) :
        /\ windows[k][1] <= windows[k][2]
        /\ windows[k][2] - windows[k][1] <= call.window_size

\* ---------------------------------------------------------------------- C7
\* C7: rolling_sum over a nullable column: at every position whose window
\* holds at least min_periods valid values the output is the sum of exactly
\* the valid values in that position's window, for trailing and centered
\* alignment; and the five results of test_rolling_sum_nulls.
C7_RollingSumOfValid ==
    /\ ReturnedBy({"sum"}) =>
         \A i \in 0..(LenArr - 1) :
             (CountValid(windows[i + 1][1], windows[i + 1][2])
                  >= call.min_periods)
                 => /\ out.validity[i + 1]
                    /\ out.values[i + 1]
                         = FromInt(SumOfValid(windows[i + 1][1],
                                              windows[i + 1][2]))
    /\ arr = TestSumNullsArr =>
         /\ CalledWith("sum", 2, 1, FALSE)
              => Returned(<<1, 1, 3, 7>>, <<TRUE, TRUE, TRUE, TRUE>>)
         /\ CalledWith("sum", 4, 1, FALSE)
              => Returned(<<1, 1, 4, 8>>, <<TRUE, TRUE, TRUE, TRUE>>)
         /\ CalledWith("sum", 4, 1, TRUE)
              => Returned(<<1, 4, 8, 7>>, <<TRUE, TRUE, TRUE, TRUE>>)
         /\ CalledWith("sum", 2, 2, FALSE)
              => Returned(<<0, 0, 0, 7>>, <<FALSE, FALSE, FALSE, TRUE>>)
         /\ CalledWith("sum", 4, 4, TRUE)
              => Returned(<<0, 0, 0, 0>>, <<FALSE, FALSE, FALSE, FALSE>>)

\* rolling_sum(window 4, min_periods 1, centered) has returned for the
\* column [1, _, 3, 4]: every window holds a null slot next to valid ones.
C7_Witness ==
    /\ arr = TestSumNullsArr
    /\ CalledWith("sum", 4, 1, TRUE)
    /\ out.values = <<FromInt(1), FromInt(4), FromInt(8), FromInt(7)>>

\* ---------------------------------------------------------------------- C8
\* The largest of the values of rows lo..hi.
MaxOfRows(lo, hi) ==
    CHOOSE m \in {arr.values[k + 1] : k \in lo..hi} :
        \A k \in lo..hi : arr.values[k + 1] <= m

RollingMaxTrailingLaw ==
    \A i \in 0..(LenArr - 1) :
        /\ (~out.validity[i + 1])
             <=> (Min(i + 1, call.window_size) < call.min_periods)
        /\ (out.validity[i + 1] /\ Max(0, i - call.window_size + 1) <= i)
             => out.values[i + 1]
                  = FromInt(MaxOfRows(Max(0, i - call.window_size + 1), i))

\* C8: rolling_max with trailing windows over a column whose validity bitmap
\* is fully set: the output at position i is null exactly when
\* min(i + 1, window_size) < min_periods, and otherwise is the maximum of
\* values[max(0, i - window_size + 1) ..= i]; and the three results of
\* test_rolling_max_no_nulls.
C8_RollingMaxTrailing ==
    /\ (ReturnedBy({"max"}) /\ ~call.center /\ FullyValid)
         => RollingMaxTrailingLaw
    /\ arr = TestMaxNoNullsArr =>
         /\ CalledWith("max", 4, 1, FALSE)
              => Returned(<<1, 2, 3, 4>>, <<TRUE, TRUE, TRUE, TRUE>>)
         /\ CalledWith("max", 2, 2, FALSE)
              => Returned(<<0, 2, 3, 4>>, <<FALSE, TRUE, TRUE, TRUE>>)
         /\ CalledWith("max", 4, 4, FALSE)
              => Returned(<<0, 0, 0, 4>>, <<FALSE, FALSE, FALSE, TRUE>>)

\* The law of C8 for the calls with window_size >= 1 only.
RollingMaxTrailingFromOne ==
    (ReturnedBy({"max"}) /\ ~call.center /\ FullyValid
         /\ call.window_size >= 1)
        => RollingMaxTrailingLaw

\* ---------------------------------------------------------------------- C9
\* The elements of the buffer that compare Greater than none of its elements
\* (Less than none), under the given comparator: the candidates for min_by
\* (max_by).
LeastUnderMin ==
    {m \in {buf.data[k] : k \in 1..Len(buf.data)} :
        \A k \in 1..Len(buf.data) :
            compare_fn_nan_min(buf.is_float, m, buf.data[k]) # "Greater"}

GreatestUnderMax ==
    {m \in {buf.data[k] : k \in 1..Len(buf.data)} :
        \A k \in 1..Len(buf.data) :
            compare_fn_nan_max(buf.is_float, m, buf.data[k]) # "Less"}

HoldsNanAndNumber ==
    /\ buf.is_float
    /\ \E k \in 1..Len(buf.data) : is_nan(buf.data[k])
    /\ \E k \in 1..Len(buf.data) : ~is_nan(buf.data[k])

NaturalOrder(a, b) ==
    IF a.v < b.v THEN "Less" ELSE IF a.v > b.v THEN "Greater" ELSE "Equal"

\* What C9 and its amended form share: two NaNs compare Equal, two numbers in
\* their natural order, and integers always in their natural order.
ComparatorsOnEqualKinds ==
    cmp.fn \in {"compare_fn_nan_min", "compare_fn_nan_max"} =>
        /\ (buf.is_float /\ is_nan(cmp.a) /\ is_nan(cmp.b))
             => cmp.res = "Equal"
        /\ (buf.is_float /\ ~is_nan(cmp.a) /\ ~is_nan(cmp.b))
             => cmp.res = NaturalOrder(cmp.a, cmp.b)
        /\ ~buf.is_float => cmp.res = NaturalOrder(cmp.a, cmp.b)

\* C9 as stated: compare_fn_nan_min orders NaN greater than every non-NaN
\* number, compare_fn_nan_max orders NaN less than every non-NaN number, both
\* return Equal for two NaNs; hence NaN is never selected as the minimum or
\* the maximum of a set that contains at least one non-NaN value.  For
\* integer types both comparators are the natural order.
C9_NanLosesMinAndMax ==
    /\ ComparatorsOnEqualKinds
    /\ (cmp.fn = "compare_fn_nan_min" /\ buf.is_float) =>
         /\ (is_nan(cmp.a) /\ ~is_nan(cmp.b)) => cmp.res = "Greater"
         /\ (~is_nan(cmp.a) /\ is_nan(cmp.b)) => cmp.res = "Less"
    /\ (cmp.fn = "compare_fn_nan_max" /\ buf.is_float) =>
         /\ (is_nan(cmp.a) /\ ~is_nan(cmp.b)) => cmp.res = "Less"
         /\ (~is_nan(cmp.a) /\ is_nan(cmp.b)) => cmp.res = "Greater"
    /\ HoldsNanAndNumber =>
         (NaN \notin LeastUnderMin /\ NaN \notin GreatestUnderMax)

\* C9 amended: compare_fn_nan_min orders NaN less than every non-NaN number,
\* compare_fn_nan_max orders NaN greater than every non-NaN number, both
\* return Equal for two NaNs; hence NaN is what is selected as the minimum
\* (under compare_fn_nan_min) and as the maximum (under compare_fn_nan_max) of
\* a set that contains a NaN and at least one non-NaN value.  For integer
\* types both comparators are the natural order.
C9_NanWinsMinAndMax ==
    /\ ComparatorsOnEqualKinds
    /\ (cmp.fn = "compare_fn_nan_min" /\ buf.is_float) =>
         /\ (is_nan(cmp.a) /\ ~is_nan(cmp.b)) => cmp.res = "Less"
         /\ (~is_nan(cmp.a) /\ is_nan(cmp.b)) => cmp.res = "Greater"
    /\ (cmp.fn = "compare_fn_nan_max" /\ buf.is_float) =>
         /\ (is_nan(cmp.a) /\ ~is_nan(cmp.b)) => cmp.res = "Greater"
         /\ (~is_nan(cmp.a) /\ is_nan(cmp.b)) => cmp.res = "Less"
    /\ HoldsNanAndNumber =>
         (LeastUnderMin = {NaN} /\ GreatestUnderMax = {NaN})

\* compare_fn_nan_min has compared a NaN with a number of a float buffer.
C9_Witness ==
    /\ cmp.fn = "compare_fn_nan_min"
    /\ buf.is_float
    /\ is_nan(cmp.a) /\ ~is_nan(cmp.b)
    /\ cmp.res = "Less"

\* --------------------------------------------------------------------- C10
\* How often x occurs in s.
Occurrences(s, x) == Cardinality({k \in 1..Len(s) : s[k] = x})

\* C10: sort_buf returns a permutation of its input in which every non-NaN
\* value precedes every NaN value and the non-NaN prefix is in non-decreasing
\* order; for integer buffers the result is simply non-decreasing.
C10_SortBufNanLast ==
    buf.sorted =>
        /\ Len(buf.data) = Len(buf.input)
        /\ \A k \in 1..Len(buf.input) :
             Occurrences(buf.data, buf.input[k])
                 = Occurrences(buf.input, buf.input[k])
        /\ \A i, j \in 1..Len(buf.data) :
             i < j =>
                 /\ ~(is_nan(buf.data[i]) /\ ~is_nan(buf.data[j]))
                 /\ (~is_nan(buf.data[i]) /\ ~is_nan(buf.data[j]))
                      => buf.data[i].v <= buf.data[j].v

\* sort_buf has sorted a float buffer that held a NaN in front of two numbers
\* in decreasing order.
C10_Witness ==
    /\ buf.sorted /\ buf.is_float
    /\ buf.input = <<NaN, Num(1), Num(-1)>>
    /\ buf.data = <<Num(-1), Num(1), NaN>>

\* ---------------------------------------------------------------------- C2
\* The rows of a group, in the order the group lists them.
GroupRows(g) ==
    IF gout.variant = "Slice" THEN [k \in 1..g[2] |-> g[1] + k - 1]
    ELSE g[2]

\* How many places of the returned groups hold row r.
TimesGrouped(r) ==
    Cardinality({<<g, k>> \in (1..Len(gout.groups)) \X (1..MaxRows + 1) :
                    /\ k <= Len(GroupRows(gout.groups[g]))
                    /\ GroupRows(gout.groups[g])[k] = r})

\* C2: whatever the number of chunks, the sortedness flag, the nulls and the
\* multithreaded and sorted arguments, every row index 0..len-1 of the key
\* column appears in exactly one group returned by group_tuples, exactly
\* once.
C2_IndexCoverage ==
    gout.status = "done" =>
        \A r \in 0..(ca_len(col) - 1) : TimesGrouped(r) = 1

\* Index coverage where the column is one chunk.
IndexCoverageOneChunk ==
    (gout.status = "done" /\ Len(col.chunks) = 1) =>
        \A r \in 0..(ca_len(col) - 1) : TimesGrouped(r) = 1

\* Index coverage on the hashing path.
IndexCoverageHashPath ==
    (gout.status = "done" /\ gout.path = "hash") =>
        \A r \in 0..(ca_len(col) - 1) : TimesGrouped(r) = 1

\* ---------------------------------------------------------------------- C3
\* C3: group_tuples takes the sorted fast path if and only if the column's
\* flag is Ascending or Descending and the column is exactly one chunk; a
\* column of more than one chunk never takes it.
C3_SortedPathIffFlagAndOneChunk ==
    (gout.status = "done" /\ gcall.dtype = "numeric") =>
        /\ gout.path = "sorted" <=>
             (col.flag \in {"Ascending", "Descending"} /\ Len(col.chunks) = 1)
        /\ Len(col.chunks) > 1 => gout.path # "sorted"

\* What the code does: an Ascending column takes the sorted path whatever its
\* chunks, a Descending one only as one chunk.
SortedPathAsCoded ==
    (gout.status = "done" /\ gcall.dtype = "numeric") =>
        (gout.path = "sorted" <=>
            \/ col.flag = "Ascending"
            \/ (col.flag = "Descending" /\ Len(col.chunks) = 1))

\* --------------------------------------------------------------------- C11
\* The window of position i as the kernel computed it.
WindowOf(i) == windows[i + 1]

WindowLen(i) == WindowOf(i)[2] - WindowOf(i)[1]

\* The mean of the valid rows of the window of position i.
MeanOfValid(i) ==
    FDiv(FromInt(SumOfValid(WindowOf(i)[1], WindowOf(i)[2])),
         FromInt(CountValid(WindowOf(i)[1], WindowOf(i)[2])))

\* C11: at every non-null output position of rolling_mean the value is the
\* sum of the valid values in the window divided by the number of valid
\* values in the window, not by window_size and not by the window length.
C11_MeanDividesByValidCount ==
    ReturnedBy({"mean"}) =>
        \A i \in 0..(LenArr - 1) :
            out.validity[i + 1] => out.values[i + 1] = MeanOfValid(i)

\* rolling_mean has returned a non-null value for a window that holds a null
\* slot, and dividing by the window length or by window_size would have given
\* another value.
C11_Witness ==
    /\ ReturnedBy({"mean"})
    /\ \E i \in 0..(LenArr - 1) :
        /\ out.validity[i + 1]
        /\ CountValid(WindowOf(i)[1], WindowOf(i)[2]) \in 1..(WindowLen(i) - 1)
        /\ out.values[i + 1] = MeanOfValid(i)
        /\ out.values[i + 1]
             # FDiv(FromInt(SumOfValid(WindowOf(i)[1], WindowOf(i)[2])),
                    FromInt(WindowLen(i)))
        /\ out.values[i + 1]
             # FDiv(FromInt(SumOfValid(WindowOf(i)[1], WindowOf(i)[2])),
                    FromInt(call.window_size))

\* --------------------------------------------------------------------- C12
RECURSIVE SumSqDevOfRows(_, _)
SumSqDevOfRows(rows, m) ==
    IF rows = {} THEN FromInt(0)
    ELSE LET k == CHOOSE x \in rows : TRUE
             v == FSub(FromInt(arr.values[k + 1]), m)
         IN FAdd(FMul(v, v), SumSqDevOfRows(rows \ {k}, m))

\* (sum over the valid rows of the window of (v - m)^2) / (count_valid - 1),
\* m the mean of the same rows.
VarOfValid(i) ==
    FDiv(SumSqDevOfRows({k \in WindowOf(i)[1]..(WindowOf(i)[2] - 1) :
                            RowValid(k)},
                        MeanOfValid(i)),
         FromInt(CountValid(WindowOf(i)[1], WindowOf(i)[2]) - 1))

\* C12: at every non-null output position rolling_var is the sum of the
\* squared deviations of the window's valid values from their mean, divided
\* by count_valid - 1; a window with exactly one valid value and
\* min_periods <= 1 gives a non-null, non-finite value.
C12_VarDividesByCountMinusOne ==
    ReturnedBy({"var"}) =>
        \A i \in 0..(LenArr - 1) :
            /\ out.validity[i + 1] => out.values[i + 1] = VarOfValid(i)
            /\ (CountValid(WindowOf(i)[1], WindowOf(i)[2]) = 1
                /\ call.min_periods <= 1)
                 => (out.validity[i + 1] /\ ~IsFinite(out.values[i + 1]))

\* rolling_var has returned for a column in which one window holds a null
\* slot and a single valid value (non-finite output) and another holds a null
\* slot and two different valid values (variance 1/2).
C12_Witness ==
    /\ ReturnedBy({"var"})
    /\ call.min_periods <= 1
    /\ \E i, j \in 0..(LenArr - 1) :
        /\ CountValid(WindowOf(i)[1], WindowOf(i)[2]) = 1
        /\ WindowLen(i) = 2
        /\ out.validity[i + 1] /\ ~IsFinite(out.values[i + 1])
        /\ CountValid(WindowOf(j)[1], WindowOf(j)[2]) = 2
        /\ WindowLen(j) = 3
        /\ out.validity[j + 1] /\ out.values[j + 1] = Flt(1, 2)

\* --------------------------------------------------------------------- C13
\* C13: rolling_sum, rolling_mean and rolling_var called with weights fail
\* fatally for every column, window_size, min_periods and alignment, and
\* return no column.
C13_WeightsPanic ==
    (call.kind \in {"sum", "mean", "var"} /\ call.weights) =>
        (status = "panicked" /\ out = NoOut)

\* rolling_var was called with weights on a column with rows, with arguments
\* that return a column when no weights are given, and has panicked.
C13_Witness ==
    /\ call.kind = "var" /\ call.weights
    /\ call.window_size = 2 /\ call.min_periods = 1 /\ call.center
    /\ LenArr = 3
    /\ status = "panicked"
    /\ out = NoOut

\* --------------------------------------------------------------------- C14
\* The bitmap create_validity hands to the kernel for the call of the state.
FastPathValidity ==
    create_validity(call.min_periods, LenArr, call.window_size, call.center)

\* C14: for min_periods > 1 and window_size >= 1, trailing and centered, the
\* head and tail scans of create_validity mark as null exactly the positions
\* whose window length is < min_periods, and the nullness of the kernel's
\* output is that of the count-of-valid < min_periods test at every position.
C14_FastPathMarksShortWindows ==
    (ReturnedBy({"sum", "mean", "var"}) /\ call.min_periods > 1
     /\ call.window_size >= 1) =>
        /\ FastPathValidity.some
        /\ \A i \in 0..(LenArr - 1) :
            /\ (~FastPathValidity.val[i + 1])
                 <=> (WindowLen(i) < call.min_periods)
            /\ (~out.validity[i + 1])
                 <=> (CountValid(WindowOf(i)[1], WindowOf(i)[2])
                         < call.min_periods)

\* A centered kernel has returned with min_periods > 1 for a column whose
\* first and last windows are too short and whose middle window is not.
C14_Witness ==
    /\ ReturnedBy({"sum", "mean", "var"})
    /\ call.center /\ call.window_size = 3 /\ call.min_periods = 3
    /\ LenArr = 3
    /\ FastPathValidity.val = <<FALSE, TRUE, FALSE>>
    /\ out.validity = <<FALSE, TRUE, FALSE>>

\* --------------------------------------------------------------------- C15
\* The rows of the key column, over all its chunks.
ColRows == Flatten(col.chunks)

Returned_groups == gout.status = "done"

\* The returned groups as a partition of the rows: the set of their row sets.
GroupRowSets ==
    {{GroupRows(gout.groups[g])[k] :
         k \in 1..Len(GroupRows(gout.groups[g]))} :
     g \in 1..Len(gout.groups)}

\* The partition of the rows by key: rows are together exactly when their
\* keys are equal.  It is what the hashing path returns for the column.
KeyClasses ==
    {{q \in 0..(Len(ColRows) - 1) : ColRows[q + 1] = ColRows[r + 1]} :
     r \in 0..(Len(ColRows) - 1)}

HashingPathRowSets ==
    LET groups == FirstOccurrenceGroups(ColRows)
    IN  {{groups[g][2][k] : k \in 1..Len(groups[g][2])} :
         g \in 1..Len(groups)}

\* C15: for every numeric key column whose flag is Ascending or Descending
\* and describes its order, the Slice groups of the sorted fast path denote
\* the same partition of the row indices as the Idx groups of the hashing
\* path for the same column.
C15_SortedPathDenotesHashGroups ==
    (Returned_groups /\ gout.path = "sorted") =>
        GroupRowSets = HashingPathRowSets

\* The same for the integer columns of one chunk.
SortedPathDenotesHashGroupsOneChunk ==
    (/\ Returned_groups /\ gout.path = "sorted"
     /\ Len(col.chunks) = 1 /\ ~col.float) =>
        GroupRowSets = HashingPathRowSets

\* --------------------------------------------------------------------- C16
\* C16: on the hashing path the set of groups (key -> set of member rows) is
\* the partition of the rows by key, for every partition count and for the
\* single-threaded run alike; rows with equal keys are never in two groups.
C16_PartitionIndependence ==
    (Returned_groups /\ gout.path = "hash") =>
        /\ GroupRowSets = KeyClasses
        /\ Len(gout.groups) = Cardinality(KeyClasses)

\* The string path has returned from a pool of two partitions for a column in
\* which a key occurs in both row ranges, and the two keys of the column went
\* to different partitions.
C16_Witness ==
    /\ Returned_groups /\ gcall.dtype = "utf8"
    /\ pool.region = "hash" /\ Len(pool.tasks) = 2
    /\ ColRows = <<Key(1), Key(2), Key(2), Key(1)>>
    /\ pool.hb[1] # pool.hb[2]
    /\ GroupRowSets = {{0, 3}, {1, 2}}

\* --------------------------------------------------------------------- C17
\* What the regions return when every result is taken at the position of its
\* partition or row range.
SortedRegionInPositionOrder ==
    Flatten([i \in 1..Len(pool.tasks) |->
                PartitionGroups(SortedValues(col), pool.tasks, i,
                                SortedNullCount(col), SortedNullsFirst(col))])

HashRegionInPositionOrder ==
    [i \in 1..Len(pool.tasks) |->
        RangeHashes(col, pool.hb, pool.null_h, pool.tasks[i])]

\* C17: in both parallel regions the workers' results are stored at the
\* position of their partition or row range and taken in that order after
\* the join: whatever the order in which the workers returned, the sorted
\* path returns the partitions' slices in partition order, and the string
\* path groups the row ranges' hashes in row order.
C17_DeterministicUnderParallelism ==
    /\ (Returned_groups /\ pool.region = "sorted") =>
         gout.groups = SortedRegionInPositionOrder
    /\ (Returned_groups /\ pool.region = "hash") =>
         /\ collect(pool.slots, pool.order) = HashRegionInPositionOrder
         /\ gout.groups \in groupby_threaded_num(
                                HashRegionInPositionOrder,
                                set_partition_size(gcall.n_threads),
                                gcall.sorted)
         /\ gcall.sorted =>
                gout.groups = PartitionedGroups(
                    Flatten(HashRegionInPositionOrder),
                    [r \in 1..ca_len(col) |->
                        Flatten(HashRegionInPositionOrder)[r].h
                            % set_partition_size(gcall.n_threads)],
                    set_partition_size(gcall.n_threads))

\* The sorted path has returned after the worker of the second partition
\* returned before the worker of the first.
C17_Witness ==
    /\ Returned_groups /\ pool.region = "sorted"
    /\ pool.order = <<2, 1>>
    /\ ColRows = <<NullKey, Key(1), Key(1), Key(2)>>
    /\ gout.groups = <<<<0, 1>>, <<1, 2>>, <<3, 1>>>>

\* --------------------------------------------------------------------- C18
NullRows == {r \in 0..(Len(ColRows) - 1) : ColRows[r + 1].null}

\* The hashes the string path grouped, in row order.
StrHashes == Flatten(collect(pool.slots, pool.order))

\* C18: on the hashing path all null rows get the same sentinel hash and are
\* together in exactly one group, which holds no row with a non-null key.
C18_NullKeysFormOneGroup ==
    (Returned_groups /\ gout.path = "hash" /\ NullRows # {}) =>
        /\ Cardinality({g \in 1..Len(gout.groups) :
                           \E k \in 1..Len(gout.groups[g][2]) :
                               gout.groups[g][2][k] \in NullRows}) = 1
        /\ NullRows \in GroupRowSets
        /\ gcall.dtype = "utf8" =>
               \A r \in NullRows : StrHashes[r + 1].h = pool.null_h

\* The string path has returned from a pool for a column with a null in each
\* row range and a string whose hash is the hash of null.
C18_Witness ==
    /\ Returned_groups /\ gcall.dtype = "utf8"
    /\ pool.region = "hash" /\ Len(pool.tasks) = 2
    /\ ColRows = <<NullKey, Key(1), Key(1), NullKey>>
    /\ pool.hb[1] = pool.null_h
    /\ GroupRowSets = {{0, 3}, {1, 2}}

\* --------------------------------------------------------------------- C19
\* C19: single-threaded hashing with sorted = true returns the groups in the
\* order of the first occurrence of their keys: the firsts are strictly
\* increasing and every group lists its rows in increasing order; the keys
\* [3, 1, 1, 3, 2] give (0, [0, 3]), (1, [1, 2]), (4, [4]).
C19_FirstOccurrenceOrder ==
    (Returned_groups /\ gout.path = "hash" /\ pool.region = "none"
     /\ gcall.sorted) =>
        /\ \A g, h \in 1..Len(gout.groups) :
               g < h => gout.groups[g][1] < gout.groups[h][1]
        /\ \A g \in 1..Len(gout.groups) :
               \A j, k \in 1..Len(gout.groups[g][2]) :
                   j < k => gout.groups[g][2][j] < gout.groups[g][2][k]
        /\ col = FirstOccurrenceCol =>
               gout.groups
                   = <<<<0, <<0, 3>>>>, <<1, <<1, 2>>>>, <<4, <<4>>>>>>

\* group_tuples(multithreaded = false, sorted = true) has returned for the
\* integer column [3, 1, 1, 3, 2].
C19_Witness ==
    /\ Returned_groups /\ gcall.dtype = "numeric"
    /\ ~gcall.multithreaded /\ gcall.sorted
    /\ col = FirstOccurrenceCol
    /\ gout.groups = <<<<0, <<0, 3>>>>, <<1, <<1, 2>>>>, <<4, <<4>>>>>>

\* --------------------------------------------------------------------- C20
\* C20: in every group of a returned Idx-variant GroupsProxy the first value
\* is a member of the group's index list and the smallest index in it; no
\* group is empty.
C20_FirstIsSmallestMember ==
    (Returned_groups /\ gout.variant = "Idx") =>
        \A g \in 1..Len(gout.groups) :
            /\ Len(gout.groups[g][2]) >= 1
            /\ \E k \in 1..Len(gout.groups[g][2]) :
                   gout.groups[g][2][k] = gout.groups[g][1]
            /\ \A k \in 1..Len(gout.groups[g][2]) :
                   gout.groups[g][1] <= gout.groups[g][2][k]

\* An Idx GroupsProxy has been returned with sorted = false in which a group
\* of two rows comes before the group of an earlier row.
C20_Witness ==
    /\ Returned_groups /\ gout.variant = "Idx"
    /\ ~gcall.sorted
    /\ Len(gout.groups) = 2
    /\ gout.groups[1] = <<1, <<1, 3>>>>
    /\ gout.groups[2] = <<0, <<0, 2>>>>

\* --------------------------------------------------------------------- C24
\* The aggregation window of rolling_max is in use or has been used.
AggWindowUsed == call.kind = "max" /\ status \in {"running", "done"}

\* The bounds the offset policy of the call gives for position i.
PolicyWindow(i) ==
    det_offsets_fn(call.center, i, call.window_size, LenArr)

\* What update returned for the window of position i.
UpdateResult(i) ==
    MaxWindow_update(arr, agg.window, windows[i + 1][1], windows[i + 1][2])

\* Construction and output as C24 and its amended form both state them: the
\* window object is constructed once, with the window of position 0, and the
\* output at a position is the value update returned for it, or null when it
\* returned None.
ConstructedOnceAndOutputFromUpdate ==
    /\ AggWindowUsed =>
         (Len(agg.news) = 1 /\ agg.news[1] = PolicyWindow(0))
    /\ (AggWindowUsed /\ status = "done") =>
         /\ Len(out.values) = LenArr
         /\ \A i \in 0..(LenArr - 1) :
              /\ i < Len(windows) /\ ~UpdateResult(i).some
                   => ~out.validity[i + 1]
              /\ (i < Len(windows) /\ out.validity[i + 1])
                   => out.values[i + 1] = UpdateResult(i).val

\* C24 as stated: the window object is constructed once with the window of
\* position 0 and update is then called once for each subsequent position
\* 1..len-1, in increasing order, with the bounds of that position.
C24_UpdateFromPositionOne ==
    /\ ConstructedOnceAndOutputFromUpdate
    /\ AggWindowUsed =>
         \A k \in 1..Len(windows) : windows[k] = PolicyWindow(k)
    /\ (AggWindowUsed /\ status = "done" /\ LenArr >= 1) =>
         Len(windows) = LenArr - 1

\* C24 amended: the window object is constructed once with the window of
\* position 0 and update is then called once for every position 0..len-1,
\* position 0 included, in increasing order, with the bounds of that
\* position.
C24_UpdateFromPositionZero ==
    /\ ConstructedOnceAndOutputFromUpdate
    /\ AggWindowUsed =>
         /\ Len(windows) = agg.idx
         /\ \A k \in 1..Len(windows) : windows[k] = PolicyWindow(k - 1)
    /\ (AggWindowUsed /\ status = "done") => Len(windows) = LenArr

\* rolling_max has returned for a column of three rows: the first update had
\* the bounds of position 0, the bounds the window was constructed with.
C24_Witness ==
    /\ AggWindowUsed /\ status = "done"
    /\ LenArr = 3 /\ call.window_size = 2 /\ ~call.center
    /\ Len(windows) = 3
    /\ windows[1] = agg.news[1]
    /\ windows = <<<<0, 1>>, <<0, 2>>, <<1, 3>>>>

\* --------------------------------------------------------------------- C25
InBounds(o) == o[1] <= o[2] /\ o[2] <= LenArr

\* C25: for every column length, len = 0 included, every window_size >= 1
\* and both policies, every range handed to the aggregation window at
\* construction and at every update, and every range rolling_apply slices,
\* satisfies start <= end <= len.
C25_RangesInBounds ==
    call.window_size >= 1 =>
        /\ \A k \in 1..Len(windows) : InBounds(windows[k])
        /\ \A k \in 1..Len(agg.news) : InBounds(agg.news[k])

\* The same for the columns that have a row.
RangesInBoundsNonEmpty ==
    (call.window_size >= 1 /\ LenArr >= 1) =>
        /\ \A k \in 1..Len(windows) : InBounds(windows[k])
        /\ \A k \in 1..Len(agg.news) : InBounds(agg.news[k])

\* --------------------------------------------------------------------- C26
\* C26: for both policies and window_size >= 1 the bounds of consecutive
\* update calls never move backwards and advance by at most 1 each:
\* start(i) <= start(i+1) <= start(i) + 1 and end(i) <= end(i+1) <= end(i) + 1.
C26_BoundsAdvanceByAtMostOne ==
    (AggWindowUsed /\ call.window_size >= 1) =>
        \A k \in 1..(Len(windows) - 1) :
            /\ windows[k + 1][1] \in {windows[k][1], windows[k][1] + 1}
            /\ windows[k + 1][2] \in {windows[k][2], windows[k][2] + 1}

\* A centered rolling_max has made all its updates over three rows: the
\* window grew at the head and shrank at the tail.
C26_Witness ==
    /\ AggWindowUsed /\ call.center /\ call.window_size = 3
    /\ windows = <<<<0, 2>>, <<0, 3>>, <<1, 3>>>>

\* --------------------------------------------------------------------- C21
\* C21: with the list-grouping feature enabled, group_tuples on a list column
\* whose inner type is not numeric returns an error value and no GroupsProxy,
\* for both multithreaded and both sorted settings; it does not panic, enters
\* no parallel region and leaves no partial grouping.
C21_ListOfNonNumericIsError ==
    (gcall.dtype = "list" /\ gcall.groupby_list /\ ~gcall.inner_numeric) =>
        /\ gout.status = "error"
        /\ gout.variant = "none" /\ gout.groups = <<>>
        /\ pool = NoPool

\* group_tuples(multithreaded = true, sorted = true) was called on a list
\* column of four rows whose inner type is not numeric, and returned Err.
C21_Witness ==
    /\ gcall.dtype = "list" /\ gcall.groupby_list /\ ~gcall.inner_numeric
    /\ gcall.multithreaded /\ gcall.sorted /\ gcall.n_threads = 2
    /\ Len(ColRows) = 4
    /\ gout.status = "error"

\* --------------------------------------------------------------------- C23
\* The slices of groups that hold a null row.
NullSlices(groups) ==
    {g \in 1..Len(groups) :
        \E r \in NullRows : groups[g][1] <= r /\ r < groups[g][1] + groups[g][2]}

\* The first index a partition's slices have to start at: the non-null values
\* before it, plus the nulls when they come first.
PartitionFirstIndex(i) ==
    IF SortedNullsFirst(col)
    THEN IF i = 1 THEN 0 ELSE pool.tasks[i] + SortedNullCount(col)
    ELSE pool.tasks[i]

\* C23: on a single-chunk sorted column, for every number of workers above one
\* and every clean partitioning, the multithreaded sorted path returns the
\* slice sequence of the sequential one; each partition's slices start at the
\* number of non-null values before it, plus null_count when the nulls are
\* first, and the null group is emitted exactly once.
C23_ParallelSortedEqualsSequential ==
    (/\ Returned_groups /\ gcall.dtype = "numeric"
     /\ pool.region = "sorted" /\ Len(col.chunks) = 1) =>
        /\ gout.groups = partition_to_groups(
               SortedValues(col), SortedNullCount(col),
               SortedNullsFirst(col), 0)
        /\ {gout.groups} = create_groups_from_sorted(col, FALSE,
                                                     gcall.n_threads)
        /\ \A i \in 1..Len(pool.tasks) :
               pool.slots[i].val[1][1] = PartitionFirstIndex(i)
        /\ SortedNullCount(col) > 0 =>
               /\ Cardinality(NullSlices(gout.groups)) = 1
               /\ \E g \in NullSlices(gout.groups) :
                      gout.groups[g][2] = SortedNullCount(col)

\* Three workers grouped a column of one null in front of two distinct values
\* in two partitions; the second worker returned first.
C23_Witness ==
    /\ Returned_groups /\ gcall.dtype = "numeric"
    /\ pool.region = "sorted" /\ Len(col.chunks) = 1
    /\ gcall.n_threads = 3
    /\ SortedNullsFirst(col) /\ SortedNullCount(col) = 1
    /\ Len(pool.tasks) = 2
    /\ pool.order = <<2, 1>>
    /\ Len(gout.groups) = 3

\* The same with the nulls behind the values.
SortedNullsLastInParallel ==
    /\ Returned_groups /\ gcall.dtype = "numeric"
    /\ pool.region = "sorted" /\ Len(col.chunks) = 1
    /\ SortedNullCount(col) = 2 /\ ~SortedNullsFirst(col)
    /\ Len(pool.tasks) = 2

\* --------------------------------------------------------------------- C27
\* The slices tile 0..len-1 in output order.
Tiles(groups, len) ==
    /\ \A g \in 1..Len(groups) : groups[g][2] >= 1
    /\ groups # <<>> =>
           /\ groups[1][1] = 0
           /\ groups[Len(groups)][1] + groups[Len(groups)][2] = len
    /\ \A g \in 1..(Len(groups) - 1) :
           groups[g + 1][1] = groups[g][1] + groups[g][2]
    /\ groups = <<>> => len = 0

\* C27: the slices the sorted path returns for a single-chunk column of length
\* len tile the index space in output order, each of length at least 1; an
\* empty column gives no slice, an all-null column the one slice (0, len); the
\* output is the Slice variant whatever multithreaded and sorted are.
C27_SortedSlicesTile ==
    (/\ Returned_groups /\ gcall.dtype = "numeric"
     /\ gout.path = "sorted" /\ Len(col.chunks) = 1) =>
        /\ gout.variant = "Slice"
        /\ Tiles(gout.groups, ca_len(col))
        /\ ca_len(col) = 0 => gout.groups = <<>>
        /\ (ca_len(col) > 0 /\ SortedNullCount(col) = ca_len(col)) =>
               gout.groups = <<<<0, ca_len(col)>>>>

\* The sorted path returned three slices for a column of four rows, two of
\* them null, with multithreaded = false and sorted = false.
C27_Witness ==
    /\ Returned_groups /\ gcall.dtype = "numeric"
    /\ gout.path = "sorted" /\ Len(col.chunks) = 1
    /\ ~gcall.multithreaded /\ ~gcall.sorted
    /\ ca_len(col) = 4 /\ SortedNullCount(col) = 2
    /\ Len(gout.groups) = 3

\* The sorted path was taken on an all-null column of three rows.
SortedAllNullReached ==
    /\ Returned_groups /\ gcall.dtype = "numeric"
    /\ gout.path = "sorted" /\ Len(col.chunks) = 1
    /\ ca_len(col) = 3 /\ SortedNullCount(col) = 3

\* --------------------------------------------------------------------- C30
\* C30: with multithreaded = true and a key column of at most 1000 rows the
\* hashing is single-threaded for every key type: no row-range split and no
\* worker pool.
C30_SmallColumnsHashSingleThreaded ==
    (/\ gout.status \in {"running", "done"}
     /\ gcall.multithreaded
     /\ ca_len(col) <= GROUP_MULTITHREADED_LEN
     /\ gout.path = "hash") =>
        pool.region # "hash"

\* What holds: the threshold is applied to numeric keys.
SmallNumericColumnsHashSingleThreaded ==
    (/\ gout.status \in {"running", "done"}
     /\ gcall.dtype = "numeric"
     /\ ca_len(col) <= GROUP_MULTITHREADED_LEN
     /\ gout.path = "hash") =>
        pool.region # "hash"

\* String and list keys enter the pool whenever multithreaded is set.
HashRegionEnteredIffMultithreaded ==
    (gout.status \in {"running", "done"} /\ gout.path = "hash"
     /\ gcall.dtype \in {"utf8", "list"}) =>
        (pool.region = "hash" <=> gcall.multithreaded)

\* --------------------------------------------------------------------- C22
\* Rows r and q are in one returned group.
InOneGroup(r, q) ==
    \E g \in 1..Len(gout.groups) :
        LET rows == GroupRows(gout.groups[g])
        IN  /\ \E k \in 1..Len(rows) : rows[k] = r
            /\ \E k \in 1..Len(rows) : rows[k] = q

\* Two non-null rows are grouped together exactly when their bits are equal.
GroupedBitwise ==
    \A r, q \in 0..(Len(ColRows) - 1) :
        (~ColRows[r + 1].null /\ ~ColRows[q + 1].null) =>
            (InOneGroup(r, q) <=> ColRows[r + 1].v = ColRows[q + 1].v)

\* C22: group_tuples on a float key column puts two non-null rows in the same
\* group if and only if their bit patterns are identical, whatever the
\* sortedness flag of the column.
C22_FloatKeysGroupBitwise ==
    (Returned_groups /\ gcall.dtype = "numeric" /\ col.float) =>
        GroupedBitwise

\* What holds: float keys are grouped by their bits on the hashing path.
FloatKeysGroupBitwiseWhenHashed ==
    (Returned_groups /\ gcall.dtype = "numeric" /\ col.float
     /\ gout.path = "hash") =>
        GroupedBitwise

\* The one-chunk column [-0.0, +0.0] flagged Ascending came back as the single
\* slice (0, 2).
ZerosMergedOnSortedPath ==
    /\ Returned_groups /\ gcall.dtype = "numeric"
    /\ col = [chunks |-> <<<<Key(F_NEG_ZERO), Key(F_POS_ZERO)>>>>,
              flag |-> "Ascending", float |-> TRUE]
    /\ gout.groups = <<<<0, 2>>>>

\* The unflagged column [NaN_a, -0.0, NaN_a] was hashed into two groups.
NaNsSharedWhenHashed ==
    /\ Returned_groups /\ gcall.dtype = "numeric"
    /\ ColRows = <<Key(F_NAN_A), Key(F_NEG_ZERO), Key(F_NAN_A)>>
    /\ gout.path = "hash" /\ Len(gout.groups) = 2

\* --------------------------------------------------------------------- C28
\* The flag the claim gives the result of a scalar operation.
ScalarFlag ==
    IF acall.op \in {"add", "sub"} THEN lhs.flag
    ELSE IF acall.op = "div"
    THEN IF acall.scalar >= 0 THEN lhs.flag ELSE reverse(lhs.flag)
    ELSE "Not"

\* The flags of the results are as stated.
FlagRules ==
    /\ (aout.status = "done" /\ acall.kind = "scalar") =>
           aout.flag = ScalarFlag
    /\ (aout.status = "done" /\ acall.kind = "owned") => aout.flag = "Not"

\* Some value of the column left the integer width in the operation.
Wrapped ==
    \E k \in 1..Len(lhs.rows) :
        /\ ~lhs.rows[k].null
        /\ exact(acall.op, lhs.rows[k].v, acall.scalar) \notin IntVals

\* C28: after column + scalar and column - scalar the result has the input's
\* flag, after column / scalar the input's flag for scalar >= 0 and the
\* reversed flag for scalar < 0, after * and % none, and after an in-place
\* column-by-column operation none; a flag of Ascending or Descending on the
\* result is the true order of its values, also when + or - wrapped around.
C28_FlagAfterArithmeticIsTrue ==
    /\ FlagRules
    /\ (aout.status = "done" /\ acall.kind \in {"scalar", "owned"}) =>
           InFlagOrder(aout.rows, aout.flag)

\* What holds: the flags are set as stated.
FlagRulesAfterArithmetic == FlagRules

\* What holds: the flag of the result is true when no value wrapped around.
FlagTrueWithoutWrap ==
    (aout.status = "done" /\ acall.kind = "scalar" /\ ~Wrapped) =>
        InFlagOrder(aout.rows, aout.flag)

\* The column [MAX - 1, MAX] flagged Ascending plus 1, without overflow
\* checks, came back as [MAX, MIN] flagged Ascending.
WrappedSumKeepsFlag ==
    /\ aout.status = "done" /\ acall.kind = "scalar" /\ acall.op = "add"
    /\ lhs = [rows |-> <<Key(IntMax - 1), Key(IntMax)>>, flag |-> "Ascending"]
    /\ acall.scalar = 1
    /\ aout.rows = <<Key(IntMax), Key(IntMin)>>
    /\ aout.flag = "Ascending"

\* A column flagged Ascending divided by a negative scalar came back flagged
\* Descending.
DivisionByNegativeReverses ==
    /\ aout.status = "done" /\ acall.kind = "scalar" /\ acall.op = "div"
    /\ acall.scalar < 0 /\ lhs.flag = "Ascending" /\ Len(lhs.rows) = 3
    /\ lhs.rows[1] # lhs.rows[3]
    /\ aout.flag = "Descending"

\* --------------------------------------------------------------------- C29
\* The operation was one between two columns.
BetweenColumns ==
    /\ acall.kind \in {"borrowed", "owned", "utf8", "binary"}
    /\ aout.status # "idle"

LengthsMismatch ==
    /\ Len(lhs.rows) # Len(acall.rhs.rows)
    /\ Len(lhs.rows) # 1
    /\ Len(acall.rhs.rows) # 1

\* With exactly one operand of one row the result has the length of the
\* other.
BroadcastLength ==
    /\ (Len(acall.rhs.rows) = 1 /\ Len(lhs.rows) # 1) =>
           Len(aout.rows) = Len(lhs.rows)
    /\ (Len(lhs.rows) = 1 /\ Len(acall.rhs.rows) # 1) =>
           Len(aout.rows) = Len(acall.rhs.rows)

\* C29: an operation between two columns of different lengths, neither of
\* them 1, panics and returns nothing, for + - * / % on numeric columns,
\* borrowed and owned, and for + on string and byte-string columns; with
\* exactly one operand of length 1 the result has the other's length.
C29_LengthMismatchIsFatal ==
    BetweenColumns =>
        /\ LengthsMismatch => aout.status = "panicked"
        /\ aout.status = "done" => BroadcastLength

\* What holds: the numeric operations panic on mismatched lengths.
NumericLengthMismatchIsFatal ==
    (BetweenColumns /\ acall.kind \in {"borrowed", "owned"}) =>
        (LengthsMismatch => aout.status = "panicked")

\* What holds: the broadcast of a one-row operand, for every kind of column.
BroadcastHasOtherLength ==
    (BetweenColumns /\ aout.status = "done") => BroadcastLength

\* A string column of three rows plus one of two rows came back with two rows.
StringSumTruncated ==
    /\ acall.kind = "utf8" /\ aout.status = "done"
    /\ Len(lhs.rows) = 3 /\ Len(acall.rhs.rows) = 2
    /\ Len(aout.rows) = 2

\* Numeric columns of three and of two rows: the operation panicked.
NumericMismatchPanicked ==
    /\ acall.kind = "owned" /\ acall.op = "sub"
    /\ Len(lhs.rows) = 3 /\ Len(acall.rhs.rows) = 2
    /\ aout.status = "panicked"

====
